---- MODULE Spec2Model ----
(***************************************************************************)
(* Model of the slidecast generation pipeline, backend/services/llm.py:    *)
(* LLMService.generate_slides_async, its chunk tasks (tenacity retry,      *)
(* module-level asyncio semaphore), its title task and the final           *)
(* merge / sort / renumber of the slides.                                  *)
(***************************************************************************)
EXTENDS Integers, Sequences, FiniteSets, TLC

VARIABLES
    sem_value,      \* semaphore._value of the module-level asyncio.Semaphore
    sem_waiters,    \* FIFO of the chunk tasks blocked in `async with semaphore`
    gen_pc,         \* per invocation: position of generate_slides_async
    segments,       \* per invocation: the transcription_segments argument
    task_pc,        \* per invocation: position of every chunk task
    attempt,        \* per invocation: tenacity attempt number of every chunk task
    calls,          \* per invocation: backend calls started by every chunk task
    task_result,    \* per invocation: value returned by every chunk task
    title_pc,       \* per invocation: position of the title task
    title_calls,    \* per invocation: backend calls started by the title task
    title_result,   \* per invocation: dict returned by the title task
    overtaken,      \* per invocation: a chunk task settled before a chunk task of lower index
    presentation,   \* per invocation: the PresentationManifest returned
    split_pc,       \* position of a call of _chunk_segments
    split_segments, \* its segments argument
    split_duration, \* its chunk_duration argument
    split_chunks,   \* the list of chunks it returns
    sync_pc,        \* position of a call of sync_with_audio
    sync_input,     \* its presentation argument
    sync_segments,  \* its transcription_segments argument
    sync_result,    \* the PresentationManifest it returns
    sync_matched,   \* per slide, the segment index accepted for it (0: none)
    sim_pc,         \* position of a call of _calculate_similarity
    sim_slide,      \* its slide argument
    sim_text,       \* its transcript_segment argument
    sim_score,      \* the score it returns, as a fraction
    sim_swapped,    \* the score of the call with the two texts exchanged
    kw_pc,          \* position of a call of _extract_keywords
    kw_text,        \* its text argument
    kw_result,      \* the set it returns
    packs,          \* the slidepacks table: id -> row
    storage,        \* the pack directories: id -> slides.json and audio
    merge_pc,       \* position of a POST /slidepacks/merge request
    merge_request,  \* its MergeRequest body
    merge_response, \* the HTTP answer: status code and new_pack_id
    courses,        \* the courses table: the ids of its rows
    order_index,    \* the column order_index of the slidepacks table: id -> value
    reorder_pc,     \* position of a POST /courses/{course_id}/reorder request
    reorder_request,  \* its course_id and its ReorderRequest body
    reorder_response, \* the HTTP status code of the answer
    batch_pc,       \* position of the background task process_batch_queue
    batch_items,    \* its files_data argument
    batch_course,   \* its course_id argument
    batch_done,     \* the number of items the loop has finished
    batch_created,  \* the ids of the rows it added, in order
    import_pc,      \* position of a POST /import-slidepack request
    import_archive, \* the uploaded file: a zip or not, and its pack folders
    import_done,    \* the number of slides.json entries the loop has finished
    import_response,  \* the HTTP status code of the answer
    move_pc,        \* position of a PATCH /slidepacks/{pack_id}/move request
    move_request,   \* its pack_id and its MoveRequest body
    move_response,  \* the HTTP status code of the answer
    temp_audio,     \* the file temp/{audio.filename}: 0, or the request that wrote it
    upload_pc,      \* per request: position of the handler of POST /generate
    upload_response,  \* per request: the HTTP status code of the answer
    transcribed     \* per request: the request whose audio it transcribed (0: none)

vars == <<sem_value, sem_waiters, gen_pc, segments, task_pc, attempt, calls,
          task_result, title_pc, title_calls, title_result, overtaken,
          presentation, split_pc, split_segments, split_duration, split_chunks,
          sync_pc, sync_input, sync_segments, sync_result, sync_matched,
          sim_pc, sim_slide, sim_text, sim_score, sim_swapped,
          kw_pc, kw_text, kw_result,
          packs, storage, merge_pc, merge_request, merge_response,
          courses, order_index, reorder_pc, reorder_request, reorder_response,
          batch_pc, batch_items, batch_course, batch_done, batch_created,
          import_pc, import_archive, import_done, import_response,
          move_pc, move_request, move_response,
          temp_audio, upload_pc, upload_response, transcribed>>

(* the state of the calls of the splitter and of the synchronizer *)
split_vars == <<split_pc, split_segments, split_duration, split_chunks>>

sync_vars == <<sync_pc, sync_input, sync_segments, sync_result, sync_matched>>

(* the state of the calls of the similarity scorer and of the keyword     *)
(* extractor                                                               *)
sim_vars == <<sim_pc, sim_slide, sim_text, sim_score, sim_swapped>>

kw_vars == <<kw_pc, kw_text, kw_result>>

(* the slidepacks table, the storage directories and the merge request *)
merge_vars == <<packs, storage, merge_pc, merge_request, merge_response>>

(* the courses table, the order of the packs and the reorder request *)
reorder_vars == <<courses, order_index, reorder_pc, reorder_request, reorder_response>>

(* the state of the other endpoints *)
(* the background task of a batch upload *)
batch_vars == <<batch_pc, batch_items, batch_course, batch_done, batch_created>>

(* the import of an archive *)
import_vars == <<import_pc, import_archive, import_done, import_response>>

(* the move of a pack to another course *)
move_vars == <<move_pc, move_request, move_response>>

(* the handlers of POST /generate and the temporary audio file *)
upload_vars == <<temp_audio, upload_pc, upload_response, transcribed>>

(* the requests of the three endpoints above *)
idle_vars == <<import_vars, move_vars, upload_vars>>

rest_vars == <<reorder_vars, batch_vars, idle_vars>>

aux_vars == <<sim_vars, kw_vars, merge_vars, rest_vars>>

(* the state of the generation pipeline *)
gen_vars == <<sem_value, sem_waiters, gen_pc, segments, task_pc, attempt, calls,
              task_result, title_pc, title_calls, title_result, overtaken,
              presentation>>

----------------------------------------------------------------------------
(* Program constants *)

MAX_CONCURRENT_REQUESTS == 5

stop_after_attempt == 5

chunk_duration == 120

DefaultTitle == "Presentazione"

EmptyTitle == "Presentazione Vuota"

(* Bounds of the model *)

MaxSegs == 2

MaxSplitSegs == 4

MaxSyncSlides == 3

MaxSyncSegs == 2

LoadSegs == 6

LoadRetries == 1

Runs == 1 .. 2

(* A JSON null / absent value where the schema wants a string *)
Null == "<null>"

NoPresentation == [raised |-> FALSE, metadata |-> [title |-> Null, duration |-> 0], slides |-> <<>>]

(* the slidepacks table (database.py, class SlidePack): the ids of the    *)
(* rows, the rows of three earlier packs and the row a merge adds         *)
MaxPackId == 3

PackIds == 1 .. (MaxPackId + 1)

Courses == {1, 2}

(* a pack directory storage/courses/{course_id}/{pack_id} *)
Dirs == Courses \X PackIds

(* the column file_path of a row that has none *)
NoPath == <<>>

NoPack == [exists |-> FALSE, title |-> Null, status |-> Null, file_path |-> NoPath,
           course_id |-> 0]

(* what stands for a slides.json that is not there *)
NoFile == [missing |-> TRUE]

(* a directory without slides.json and without audio file *)
NoDir == [json |-> NoFile, audio |-> 0]

NoResponse == [status_code |-> 0, new_pack_id |-> 0]

----------------------------------------------------------------------------
(* Inputs: transcript segments on a 60 s grid, contiguous from 0 *)

SegLengths == {60, 120}

RECURSIVE MakeSegments(_, _)
MakeSegments(lens, from) ==
    IF lens = <<>> THEN <<>>
    ELSE <<[start |-> from, end |-> from + Head(lens), text |-> "seg"]>>
         \o MakeSegments(Tail(lens), from + Head(lens))

SegmentLists(n) ==
    { MakeSegments(lens, 0) : lens \in UNION { [1 .. k -> SegLengths] : k \in 0 .. n } }

UniformSegments(n) == MakeSegments([k \in 1 .. n |-> chunk_duration], 0)

----------------------------------------------------------------------------
(* LLMService._chunk_segments *)

(* a variant of the loop that loses the segment that closes a chunk *)
RECURSIVE ChunkLoopDropsTrigger(_, _, _, _, _, _)
ChunkLoopDropsTrigger(segs, k, chunks, current_chunk, chunk_start, duration) ==
    IF k > Len(segs)
    THEN IF current_chunk # <<>> THEN Append(chunks, current_chunk) ELSE chunks
    ELSE IF segs[k].start - chunk_start >= duration /\ current_chunk # <<>>
         THEN ChunkLoopDropsTrigger(segs, k + 1, Append(chunks, current_chunk), <<>>,
                                    segs[k].start, duration)
         ELSE ChunkLoopDropsTrigger(segs, k + 1, chunks, Append(current_chunk, segs[k]),
                                    chunk_start, duration)

(* a variant of the loop that closes a chunk only beyond the duration *)
RECURSIVE ChunkLoopStrict(_, _, _, _, _, _)
ChunkLoopStrict(segs, k, chunks, current_chunk, chunk_start, duration) ==
    IF k > Len(segs)
    THEN IF current_chunk # <<>> THEN Append(chunks, current_chunk) ELSE chunks
    ELSE IF segs[k].start - chunk_start > duration /\ current_chunk # <<>>
         THEN ChunkLoopStrict(segs, k + 1, Append(chunks, current_chunk), <<segs[k]>>,
                              segs[k].start, duration)
         ELSE ChunkLoopStrict(segs, k + 1, chunks, Append(current_chunk, segs[k]),
                              chunk_start, duration)

(* a variant of the loop that seeds a new chunk at the end of its first segment *)
RECURSIVE ChunkLoopSeedsAtEnd(_, _, _, _, _, _)
ChunkLoopSeedsAtEnd(segs, k, chunks, current_chunk, chunk_start, duration) ==
    IF k > Len(segs)
    THEN IF current_chunk # <<>> THEN Append(chunks, current_chunk) ELSE chunks
    ELSE IF segs[k].start - chunk_start >= duration /\ current_chunk # <<>>
         THEN ChunkLoopSeedsAtEnd(segs, k + 1, Append(chunks, current_chunk), <<segs[k]>>,
                                  segs[k].end, duration)
         ELSE ChunkLoopSeedsAtEnd(segs, k + 1, chunks, Append(current_chunk, segs[k]),
                                  chunk_start, duration)

RECURSIVE ChunkLoop(_, _, _, _, _, _)
ChunkLoop(segs, k, chunks, current_chunk, chunk_start, duration) ==
    IF k > Len(segs)
    THEN IF current_chunk # <<>> THEN Append(chunks, current_chunk) ELSE chunks
    ELSE IF segs[k].start - chunk_start >= duration /\ current_chunk # <<>>
         THEN ChunkLoop(segs, k + 1, Append(chunks, current_chunk), <<segs[k]>>,
                        segs[k].start, duration)
         ELSE ChunkLoop(segs, k + 1, chunks, Append(current_chunk, segs[k]),
                        chunk_start, duration)

(* a variant of the splitter that returns one empty chunk for no segment *)
chunk_segments_one_empty(segs, duration) ==
    IF segs = <<>> THEN << <<>> >>
    ELSE ChunkLoop(segs, 1, <<>>, <<>>, segs[1].start, duration)

chunk_segments(segs, duration) ==
    IF segs = <<>> THEN <<>>
    ELSE ChunkLoop(segs, 1, <<>>, <<>>, segs[1].start, duration)

----------------------------------------------------------------------------
(* Backend responses *)

MkSlide(id, ts, te, title) ==
    [id |-> id, timestamp_start |-> ts, timestamp_end |-> te, title |-> title,
     content |-> <<"punto">>, math_formulas |-> <<>>, deep_dive |-> Null]

Batches ==
    { <<>>,
      <<MkSlide(7, 0, 60, "a")>>,
      <<MkSlide(1, 120, 180, "b"), MkSlide(1, 0, 90, "c")>>,
      <<MkSlide(1, 0, 60, Null)>> }

ChunkResponses ==
    { [kind |-> k, slides |-> <<>>] :
        k \in {"exception", "unparsable", "not_object", "no_slides_key", "slides_null"} }
    \cup { [kind |-> "slides_list", slides |-> b] : b \in Batches }

TitleResponses ==
    { [kind |-> k, title |-> Null] :
        k \in {"exception", "unparsable", "not_object", "no_title_key", "title_null"} }
    \cup { [kind |-> "title", title |-> "Lezione"] }

(* the attempt raises: complete_async, json.loads or data.get raised *)
Raises(resp) == resp.kind \in {"exception", "unparsable", "not_object"}

(* data.get("slides", []) *)
ChunkReturn(resp) ==
    IF resp.kind = "slides_null" THEN [is_list |-> FALSE, items |-> <<>>]
    ELSE [is_list |-> TRUE, items |-> resp.slides]

(* data.get("title", "Presentazione") *)
TitleReturn(resp, total_duration) ==
    [title |-> IF resp.kind = "no_title_key" THEN DefaultTitle ELSE resp.title,
     duration |-> total_duration]

NoResult == [is_list |-> TRUE, items |-> <<>>]

NoMetadata == [title |-> Null, duration |-> 0]

----------------------------------------------------------------------------
(* Merge, sort and renumber of generate_slides_async *)

(* an unstable variant of the sort: slides with equal keys change places *)
SortSlidesUnstable(slides) ==
    LET n == Len(slides)
        Position(j) ==
            Cardinality({ i \in 1 .. n : slides[i].timestamp_start < slides[j].timestamp_start })
            + Cardinality({ i \in j .. n : slides[i].timestamp_start = slides[j].timestamp_start })
    IN  [k \in 1 .. n |-> slides[CHOOSE j \in 1 .. n : Position(j) = k]]

(* all_slides.sort(key=timestamp_start): list.sort is stable, a slide goes *)
(* after the slides with a smaller key and after the earlier slides with   *)
(* the same key                                                            *)
SortSlides(slides) ==
    LET n == Len(slides)
        Position(j) ==
            Cardinality({ i \in 1 .. n : slides[i].timestamp_start < slides[j].timestamp_start })
            + Cardinality({ i \in 1 .. j : slides[i].timestamp_start = slides[j].timestamp_start })
    IN  [k \in 1 .. n |-> slides[CHOOSE j \in 1 .. n : Position(j) = k]]

Renumber(slides) == [k \in 1 .. Len(slides) |-> [slides[k] EXCEPT !.id = k]]

(* a variant of the loop that stops at the first failed chunk *)
RECURSIVE ConcatenateUntilFailure(_, _, _)
ConcatenateUntilFailure(pcs, results, k) ==
    IF k > Len(pcs) \/ pcs[k] # "done" THEN <<>>
    ELSE results[k].items \o ConcatenateUntilFailure(pcs, results, k + 1)

(* the loop over chunk_results: failed chunks are skipped *)
RECURSIVE Concatenate(_, _, _)
Concatenate(pcs, results, k) ==
    IF k > Len(pcs) THEN <<>>
    ELSE (IF pcs[k] = "done" THEN results[k].items ELSE <<>>)
         \o Concatenate(pcs, results, k + 1)

(* pydantic validation of Slide and PresentationMetadata *)
ValidSlide(s) == s.title # Null

ValidMetadata(m) == m.title # Null

(* a variant of the duration that reads the first segment *)
first_segment_end(segs) == IF segs # <<>> THEN segs[1].end ELSE 0

total_duration(segs) == IF segs # <<>> THEN segs[Len(segs)].end ELSE 0

----------------------------------------------------------------------------
(* State after import of the module and construction of LLMService *)

GenInit ==
    /\ sem_value = MAX_CONCURRENT_REQUESTS
    /\ sem_waiters = <<>>
    /\ gen_pc = [r \in Runs |-> "idle"]
    /\ segments = [r \in Runs |-> <<>>]
    /\ task_pc = [r \in Runs |-> <<>>]
    /\ attempt = [r \in Runs |-> <<>>]
    /\ calls = [r \in Runs |-> <<>>]
    /\ task_result = [r \in Runs |-> <<>>]
    /\ title_pc = [r \in Runs |-> "none"]
    /\ title_calls = [r \in Runs |-> 0]
    /\ title_result = [r \in Runs |-> NoMetadata]
    /\ overtaken = [r \in Runs |-> FALSE]
    /\ presentation = [r \in Runs |-> NoPresentation]

(* no call of the splitter alone is in progress *)
SplitIdle ==
    /\ split_pc = "idle"
    /\ split_segments = <<>>
    /\ split_duration = chunk_duration
    /\ split_chunks = <<>>

(* no call of the synchronizer is in progress *)
SyncIdle ==
    /\ sync_pc = "idle"
    /\ sync_input = NoPresentation
    /\ sync_segments = <<>>
    /\ sync_result = NoPresentation
    /\ sync_matched = <<>>

(* no call of the scorer or of the extractor under way *)
SimIdle ==
    /\ sim_pc = "idle"
    /\ sim_slide = Null
    /\ sim_text = ""
    /\ sim_score = <<0, 1>>
    /\ sim_swapped = <<0, 1>>

KwIdle ==
    /\ kw_pc = "idle"
    /\ kw_text = ""
    /\ kw_result = {}

(* an empty slidepacks table, an empty storage and no merge request *)
MergeIdle ==
    /\ packs = [k \in PackIds |-> NoPack]
    /\ storage = [dir \in Dirs |-> NoDir]
    /\ merge_pc = "idle"
    /\ merge_request = [title |-> Null, pack_ids |-> <<>>]
    /\ merge_response = NoResponse

(* the two courses, every order_index at its default and no reorder     *)
(* request                                                                *)
ReorderIdle ==
    /\ courses = Courses
    /\ order_index = [k \in PackIds |-> 0]
    /\ reorder_pc = "idle"
    /\ reorder_request = [course_id |-> 0, pack_ids |-> <<>>]
    /\ reorder_response = 0

(* no batch is queued *)
BatchIdle ==
    /\ batch_pc = "idle"
    /\ batch_items = <<>>
    /\ batch_course = 0
    /\ batch_done = 0
    /\ batch_created = <<>>

(* no import, no move and no /generate request *)
ImportIdle ==
    /\ import_pc = "idle"
    /\ import_archive = [zip |-> FALSE, folders |-> <<>>]
    /\ import_done = 0
    /\ import_response = 0

MoveIdle ==
    /\ move_pc = "idle"
    /\ move_request = [pack_id |-> 0, course_id |-> 0]
    /\ move_response = 0

UploadIdle ==
    /\ temp_audio = 0
    /\ upload_pc = [r \in Runs |-> "idle"]
    /\ upload_response = [r \in Runs |-> 0]
    /\ transcribed = [r \in Runs |-> 0]

RestIdle == ReorderIdle /\ BatchIdle /\ ImportIdle /\ MoveIdle /\ UploadIdle

AuxIdle == SimIdle /\ KwIdle /\ MergeIdle /\ RestIdle

Init == GenInit /\ SplitIdle /\ SyncIdle /\ AuxIdle

ChunkTasks(r) == 1 .. Len(task_pc[r])

Settled(pc) == pc \in {"done", "failed"}

AllSettled(r) ==
    /\ \A i \in ChunkTasks(r) : Settled(task_pc[r][i])
    /\ Settled(title_pc[r])

(* generate_slides_async up to the gather: chunking, the empty fallback,   *)
(* creation of one coroutine per chunk plus the title coroutine            *)
Invoke(r, segs) ==
    /\ gen_pc[r] = "idle"
    /\ segments' = [segments EXCEPT ![r] = segs]
    /\ LET segment_chunks == chunk_segments(segs, chunk_duration)
           n == Len(segment_chunks)
       IN  IF segment_chunks = <<>>
           THEN /\ gen_pc' = [gen_pc EXCEPT ![r] = "returned"]
                /\ presentation' = [presentation EXCEPT ![r] =
                       [raised |-> FALSE,
                        metadata |-> [title |-> EmptyTitle, duration |-> 0],
                        slides |-> <<>>]]
                /\ UNCHANGED <<task_pc, attempt, calls, task_result, title_pc>>
           ELSE /\ gen_pc' = [gen_pc EXCEPT ![r] = "gathering"]
                /\ task_pc' = [task_pc EXCEPT ![r] = [i \in 1 .. n |-> "pending"]]
                /\ attempt' = [attempt EXCEPT ![r] = [i \in 1 .. n |-> 1]]
                /\ calls' = [calls EXCEPT ![r] = [i \in 1 .. n |-> 0]]
                /\ task_result' = [task_result EXCEPT ![r] = [i \in 1 .. n |-> NoResult]]
                /\ title_pc' = [title_pc EXCEPT ![r] = "pending"]
                /\ UNCHANGED presentation
    /\ UNCHANGED <<sem_value, sem_waiters, title_calls, title_result, overtaken>>
    /\ UNCHANGED <<split_vars, sync_vars, aux_vars>>

(* `async with semaphore` entered by one attempt of a chunk task: the slot *)
(* is taken when the semaphore is not locked, else the task queues         *)
StartAttempt(r, i) ==
    /\ gen_pc[r] = "gathering"
    /\ i \in ChunkTasks(r)
    /\ task_pc[r][i] = "pending"
    /\ IF sem_value > 0 /\ sem_waiters = <<>>
       THEN /\ sem_value' = sem_value - 1
            /\ task_pc' = [task_pc EXCEPT ![r][i] = "calling"]
            /\ calls' = [calls EXCEPT ![r][i] = @ + 1]
            /\ UNCHANGED sem_waiters
       ELSE /\ sem_waiters' = Append(sem_waiters, <<r, i>>)
            /\ task_pc' = [task_pc EXCEPT ![r][i] = "waiting"]
            /\ UNCHANGED <<sem_value, calls>>
    /\ UNCHANGED <<gen_pc, segments, attempt, task_result, title_pc, title_calls,
                   title_result, overtaken, presentation>>
    /\ UNCHANGED <<split_vars, sync_vars, aux_vars>>

(* exit of `async with semaphore`: the slot goes to the first waiter, which *)
(* starts its backend call, or back to the semaphore                        *)
(* a variant of the exit that keeps the slot *)
ReleasedValueHeld == sem_value

ReleasedValue == IF sem_waiters = <<>> THEN sem_value + 1 ELSE sem_value

ReleasedWaiters == IF sem_waiters = <<>> THEN <<>> ELSE Tail(sem_waiters)

(* a variant of the release that loses the wake-up of the first waiter *)
ReleasedPcLost(pcs) == pcs

ReleasedPc(pcs) ==
    IF sem_waiters = <<>> THEN pcs
    ELSE [pcs EXCEPT ![Head(sem_waiters)[1]][Head(sem_waiters)[2]] = "calling"]

ReleasedCalls(cl) ==
    IF sem_waiters = <<>> THEN cl
    ELSE [cl EXCEPT ![Head(sem_waiters)[1]][Head(sem_waiters)[2]] = @ + 1]

(* a variant of the stop condition that gives up one attempt early *)
AfterFailureEarly(n) == IF n < stop_after_attempt - 1 THEN "pending" ELSE "failed"

(* tenacity: what follows an attempt that raised *)
AfterFailure(n) == IF n < stop_after_attempt THEN "pending" ELSE "failed"

(* the backend call of a chunk attempt ends with response resp *)
ChunkCallReturns(r, i, resp) ==
    /\ gen_pc[r] = "gathering"
    /\ i \in ChunkTasks(r)
    /\ task_pc[r][i] = "calling"
    /\ sem_value' = ReleasedValue
    /\ sem_waiters' = ReleasedWaiters
    /\ calls' = ReleasedCalls(calls)
    /\ IF Raises(resp)
       THEN /\ task_pc' = ReleasedPc([task_pc EXCEPT ![r][i] = AfterFailure(attempt[r][i])])
            /\ attempt' = [attempt EXCEPT ![r][i] =
                              IF @ < stop_after_attempt THEN @ + 1 ELSE @]
            /\ UNCHANGED task_result
       ELSE /\ task_pc' = ReleasedPc([task_pc EXCEPT ![r][i] = "done"])
            /\ task_result' = [task_result EXCEPT ![r][i] = ChunkReturn(resp)]
            /\ UNCHANGED attempt
    /\ overtaken' = [overtaken EXCEPT ![r] =
                        \/ @
                        \/ /\ Settled(task_pc'[r][i])
                           /\ \E j \in 1 .. (i - 1) : ~Settled(task_pc[r][j])]
    /\ UNCHANGED <<gen_pc, segments, title_pc, title_calls, title_result, presentation>>
    /\ UNCHANGED <<split_vars, sync_vars, aux_vars>>

(* _generate_title_async: the call is made outside the semaphore *)
TitleStart(r) ==
    /\ gen_pc[r] = "gathering"
    /\ title_pc[r] = "pending"
    /\ title_pc' = [title_pc EXCEPT ![r] = "calling"]
    /\ title_calls' = [title_calls EXCEPT ![r] = @ + 1]
    /\ UNCHANGED <<sem_value, sem_waiters, gen_pc, segments, task_pc, attempt, calls,
                   task_result, title_result, overtaken, presentation>>
    /\ UNCHANGED <<split_vars, sync_vars, aux_vars>>

(* what follows a title call that raised: no retry decorator *)
TitleAfterFailure(n) == "failed"

TitleCallReturns(r, resp) ==
    /\ gen_pc[r] = "gathering"
    /\ title_pc[r] = "calling"
    /\ IF Raises(resp)
       THEN /\ title_pc' = [title_pc EXCEPT ![r] = TitleAfterFailure(title_calls[r])]
            /\ UNCHANGED title_result
       ELSE /\ title_pc' = [title_pc EXCEPT ![r] = "done"]
            /\ title_result' = [title_result EXCEPT ![r] =
                                   TitleReturn(resp, total_duration(segments[r]))]
    /\ UNCHANGED <<sem_value, sem_waiters, gen_pc, segments, task_pc, attempt, calls,
                   task_result, title_calls, overtaken, presentation>>
    /\ UNCHANGED <<split_vars, sync_vars, aux_vars>>

(* a variant of the gather that is over at the first failed task *)
GatherUntilException(r) ==
    \/ AllSettled(r)
    \/ title_pc[r] = "failed"
    \/ \E i \in ChunkTasks(r) : task_pc[r][i] = "failed"

(* asyncio.gather(..., return_exceptions=True) is over *)
GatherDone(r) == AllSettled(r)

(* the code after the gather: metadata fallback, merge, sort, renumber,    *)
(* construction (validation) of the PresentationManifest                   *)
Assemble(r) ==
    /\ gen_pc[r] = "gathering"
    /\ GatherDone(r)
    /\ LET metadata == IF title_pc[r] = "done" THEN title_result[r]
                       ELSE [title |-> DefaultTitle,
                             duration |-> total_duration(segments[r])]
           iterable == \A i \in ChunkTasks(r) :
                          task_pc[r][i] = "done" => task_result[r][i].is_list
           all_slides == Renumber(SortSlides(Renumber(
                             Concatenate(task_pc[r], task_result[r], 1))))
           valid == /\ ValidMetadata(metadata)
                    /\ \A k \in 1 .. Len(all_slides) : ValidSlide(all_slides[k])
       IN  IF iterable /\ valid
           THEN /\ gen_pc' = [gen_pc EXCEPT ![r] = "returned"]
                /\ presentation' = [presentation EXCEPT ![r] =
                       [raised |-> FALSE, metadata |-> metadata, slides |-> all_slides]]
           ELSE /\ gen_pc' = [gen_pc EXCEPT ![r] = "raised"]
                /\ presentation' = [presentation EXCEPT ![r] =
                       [NoPresentation EXCEPT !.raised = TRUE]]
    /\ UNCHANGED <<sem_value, sem_waiters, segments, task_pc, attempt, calls,
                   task_result, title_pc, title_calls, title_result, overtaken>>
    /\ UNCHANGED <<split_vars, sync_vars, aux_vars>>

----------------------------------------------------------------------------
(* One invocation, every backend outcome *)

TaskIds == 1 .. (LoadSegs + 1)

Next ==
    \/ \E segs \in SegmentLists(MaxSegs) : Invoke(1, segs)
    \/ \E i \in TaskIds : StartAttempt(1, i)
    \/ \E i \in TaskIds, resp \in ChunkResponses : ChunkCallReturns(1, i, resp)
    \/ TitleStart(1)
    \/ \E resp \in TitleResponses : TitleCallReturns(1, resp)
    \/ Assemble(1)

Spec == Init /\ [][Next]_vars

----------------------------------------------------------------------------
(* One invocation with more chunks than admission slots; the number of     *)
(* attempts that raise is bounded over the whole run                       *)

LoadChunkResponses ==
    { resp \in ChunkResponses :
        \/ resp.kind = "exception"
        \/ resp.kind = "slides_list" /\ Len(resp.slides) = 1 /\ ValidSlide(resp.slides[1]) }

LoadTitleResponses == { resp \in TitleResponses : resp.kind \in {"exception", "title"} }

RECURSIVE SumSeq(_)
SumSeq(q) == IF q = <<>> THEN 0 ELSE Head(q) + SumSeq(Tail(q))

Retries == SumSeq(attempt[1]) - Len(attempt[1]) + SumSeq(attempt[2]) - Len(attempt[2])

WithinLoad(resp) == Raises(resp) => Retries < LoadRetries

LoadNext ==
    \/ Invoke(1, UniformSegments(LoadSegs))
    \/ \E i \in TaskIds : StartAttempt(1, i)
    \/ \E i \in TaskIds, resp \in LoadChunkResponses :
          WithinLoad(resp) /\ ChunkCallReturns(1, i, resp)
    \/ TitleStart(1)
    \/ \E resp \in LoadTitleResponses : TitleCallReturns(1, resp)
    \/ Assemble(1)

LoadSpec == Init /\ [][LoadNext]_vars

----------------------------------------------------------------------------
(* Two overlapping invocations on the one event loop of the server: the    *)
(* first has as many chunks as there are admission slots                   *)

PairNext ==
    \/ Invoke(1, UniformSegments(MAX_CONCURRENT_REQUESTS))
    \/ Invoke(2, UniformSegments(1))
    \/ \E r \in Runs, i \in TaskIds : StartAttempt(r, i)
    \/ \E r \in Runs, i \in TaskIds, resp \in LoadChunkResponses :
          WithinLoad(resp) /\ ChunkCallReturns(r, i, resp)
    \/ \E r \in Runs : TitleStart(r)
    \/ \E r \in Runs, resp \in LoadTitleResponses : TitleCallReturns(r, resp)
    \/ \E r \in Runs : Assemble(r)

PairSpec == Init /\ [][PairNext]_vars

(* the steps of the tasks and of the gather of an invocation in progress *)
LoadProgress ==
    \/ \E i \in TaskIds : StartAttempt(1, i)
    \/ \E i \in TaskIds, resp \in LoadChunkResponses :
          WithinLoad(resp) /\ ChunkCallReturns(1, i, resp)
    \/ TitleStart(1)
    \/ \E resp \in LoadTitleResponses : TitleCallReturns(1, resp)
    \/ Assemble(1)

(* the event loop keeps running while a task or the gather can take a step *)
FairLoadSpec == LoadSpec /\ WF_vars(LoadProgress)

----------------------------------------------------------------------------
(* Properties *)

Invoked(r) == gen_pc[r] # "idle" /\ segments[r] # <<>>

Finished(r) == gen_pc[r] \in {"returned", "raised"}

PcOf(r, i) == IF i \in ChunkTasks(r) THEN task_pc[r][i] ELSE "none"

Calling(r) == { i \in ChunkTasks(r) : task_pc[r][i] = "calling" }

InFlight(r) == Cardinality(Calling(r)) + (IF title_pc[r] = "calling" THEN 1 ELSE 0)

Titles(slides) == [k \in 1 .. Len(slides) |-> slides[k].title]

StripIds(slides) == [k \in 1 .. Len(slides) |-> [slides[k] EXCEPT !.id = 0]]

Occurrences(slides, v) == Cardinality({ k \in 1 .. Len(slides) : StripIds(slides)[k] = v })

SucceededSlides(r) ==
    UNION { { StripIds(task_result[r][i].items)[k] : k \in 1 .. Len(task_result[r][i].items) } :
            i \in { j \in ChunkTasks(r) : task_pc[r][j] = "done" } }

RECURSIVE SumOver(_, _)
SumOver(f, S) ==
    IF S = {} THEN 0
    ELSE LET x == CHOOSE y \in S : TRUE IN f[x] + SumOver(f, S \ {x})

(* the slides of a list grouped by ascending key, each group in list order *)
RECURSIVE GroupedByKey(_, _)
GroupedByKey(slides, keys) ==
    IF keys = {} THEN <<>>
    ELSE LET m == CHOOSE x \in keys : \A y \in keys : x <= y
             HasKey(s) == s.timestamp_start = m
         IN  SelectSeq(slides, HasKey) \o GroupedByKey(slides, keys \ {m})

StartKeys(slides) == { slides[k].timestamp_start : k \in 1 .. Len(slides) }

(* C1: during one generate run at most 5 backend calls are in flight,      *)
(* counting the calls of the chunk tasks and of the title task             *)
C1_AtMostFiveInFlight ==
    \A r \in Runs : InFlight(r) <= MAX_CONCURRENT_REQUESTS

(* C2: the returned slide list is the stable sort by timestamp_start of    *)
(* the concatenation, in chunk order, of the successful chunks' slides,    *)
(* and the returned ids are 1..N in list order                             *)
C2_StableSortDenseIds ==
    \A r \in Runs :
        (Invoked(r) /\ gen_pc[r] = "returned") =>
            LET joined == Concatenate(task_pc[r], task_result[r], 1)
                out == presentation[r].slides
            IN  /\ StripIds(out) = StripIds(GroupedByKey(joined, StartKeys(joined)))
                /\ \A k \in 1 .. Len(out) : out[k].id = k

C2_Witness ==
    /\ gen_pc[1] = "returned"
    /\ overtaken[1]
    /\ Titles(presentation[1].slides) = <<"c", "a", "b">>
    /\ Titles(Concatenate(task_pc[1], task_result[1], 1)) = <<"b", "c", "a">>

(* C3: generate with a non-empty segment list never raises, whatever the   *)
(* backend answers                                                         *)
C3_NeverRaises ==
    \A r \in Runs : Invoked(r) => gen_pc[r] # "raised"

(* C4: a chunk task that exhausts its retries aborts no sibling; the       *)
(* returned slides are exactly the slides of the chunk tasks that          *)
(* succeeded, those of failed chunk tasks are omitted                      *)
C4_ExactlySucceededSlides ==
    \A r \in Runs :
        (Invoked(r) /\ gen_pc[r] = "returned") =>
            LET out == presentation[r].slides
                done == { i \in ChunkTasks(r) : task_pc[r][i] = "done" }
            IN  /\ \A i \in ChunkTasks(r) : Settled(task_pc[r][i])
                /\ Len(out) = SumOver([i \in done |-> Len(task_result[r][i].items)], done)
                /\ \A v \in SucceededSlides(r) :
                      Occurrences(out, v) =
                          SumOver([i \in done |-> Occurrences(task_result[r][i].items, v)], done)

C4_Witness ==
    /\ gen_pc[1] = "returned"
    /\ Len(task_pc[1]) = 2
    /\ task_pc[1][1] = "done"
    /\ task_pc[1][2] = "failed"
    /\ overtaken[1]
    /\ Titles(presentation[1].slides) = <<"c", "b">>

(* C5: a chunk task makes at most 5 backend calls, makes none after its    *)
(* first success, retries after every attempt that raised and fails only   *)
(* after 5 failed attempts                                                 *)
C5_FiveAttempts ==
    /\ [](\A r \in Runs : \A i \in ChunkTasks(r) :
             /\ calls[r][i] <= stop_after_attempt
             /\ task_pc[r][i] = "failed" => calls[r][i] = stop_after_attempt)
    /\ [][\A r \in Runs : \A i \in ChunkTasks(r) :
             /\ task_pc[r][i] = "done" =>
                   task_pc'[r][i] = "done" /\ calls'[r][i] = calls[r][i]
             /\ (task_pc[r][i] = "calling" /\ task_pc'[r][i] = "pending") =>
                   calls[r][i] < stop_after_attempt
             /\ (task_pc[r][i] = "calling" /\ task_pc'[r][i] = "failed") =>
                   calls[r][i] = stop_after_attempt]_vars

C5_Witness ==
    /\ Len(task_pc[1]) = 2
    /\ task_pc[1][1] = "failed"
    /\ calls[1][1] = stop_after_attempt
    /\ task_pc[1][2] = "done"
    /\ calls[1][2] = 3

(* C6: the title task makes up to 5 attempts and the sentinel title is     *)
(* substituted only after they are exhausted                               *)
C6_TitleRetried ==
    \A r \in Runs : title_pc[r] = "failed" => title_calls[r] = stop_after_attempt

(* C7: if every chunk task fails, generate with non-empty segments returns *)
(* a Presentation with no slides and does not raise                        *)
C7_OutageGivesEmptyDeck ==
    \A r \in Runs :
        (Invoked(r) /\ Finished(r) /\ \A i \in ChunkTasks(r) : task_pc[r][i] = "failed") =>
            gen_pc[r] = "returned" /\ presentation[r].slides = <<>>

C9_InvocationsIsolated ==
    \A r \in Runs : \A i \in ChunkTasks(r) :
        task_pc[r][i] = "waiting" =>
            Cardinality(Calling(r)) >= MAX_CONCURRENT_REQUESTS

(* C10: generate launches one task per chunk plus the title task, and the  *)
(* slides are merged only when every one of them has settled               *)
C10_FanInAfterAllSettled ==
    \A r \in Runs :
        /\ Invoked(r) =>
              /\ Len(task_pc[r]) = Len(chunk_segments(segments[r], chunk_duration))
              /\ title_pc[r] # "none"
        /\ (Invoked(r) /\ presentation[r] # NoPresentation) => AllSettled(r)
        /\ (Invoked(r) /\ Finished(r)) => AllSettled(r)

C10_Witness ==
    /\ gen_pc[1] = "returned"
    /\ Len(task_pc[1]) = 2
    /\ overtaken[1]
    /\ title_pc[1] = "failed"
    /\ task_pc[1][1] = "done"
    /\ Len(presentation[1].slides) = 3

(* C11: generate with an empty segment list returns a Presentation with no *)
(* slides, the sentinel title and duration 0, and makes no backend call    *)
C11_EmptyInputFallback ==
    \A r \in Runs :
        (gen_pc[r] # "idle" /\ segments[r] = <<>>) =>
            /\ gen_pc[r] = "returned"
            /\ presentation[r].raised = FALSE
            /\ presentation[r].slides = <<>>
            /\ presentation[r].metadata = [title |-> "Presentazione Vuota", duration |-> 0]
            /\ task_pc[r] = <<>> /\ calls[r] = <<>>
            /\ title_pc[r] = "none" /\ title_calls[r] = 0

C11_Witness ==
    /\ gen_pc[1] = "returned"
    /\ segments[1] = <<>>
    /\ presentation[1].metadata.title = EmptyTitle

(* C12: for non-empty segments the duration of the result is the end of    *)
(* the last segment whether the title task succeeded or failed; the title  *)
(* is the one of the title task when it succeeded, else the sentinel       *)
C12_DurationAndTitle ==
    \A r \in Runs :
        (Invoked(r) /\ gen_pc[r] = "returned") =>
            /\ presentation[r].metadata.duration = segments[r][Len(segments[r])].end
            /\ title_pc[r] = "done" =>
                  presentation[r].metadata.title = title_result[r].title
            /\ title_pc[r] = "failed" =>
                  presentation[r].metadata.title = "Presentazione"

C12_Witness ==
    /\ gen_pc[1] = "returned"
    /\ Len(segments[1]) = 2
    /\ title_pc[1] = "failed"
    /\ presentation[1].metadata = [title |-> DefaultTitle, duration |-> 180]
    /\ Len(presentation[1].slides) = 2

----------------------------------------------------------------------------
(* The chunk splitter alone: _chunk_segments applied to time-ordered,      *)
(* contiguous segments of 5, 60 or 130 seconds                             *)

SplitLengths == {5, 60, 130}

SplitDurations == {60, 120}

SplitInputs ==
    { MakeSegments(lens, 0) :
        lens \in UNION { [1 .. k -> SplitLengths] : k \in 0 .. MaxSplitSegs } }

SplitInit ==
    /\ GenInit
    /\ SyncIdle
    /\ AuxIdle
    /\ split_pc = "called"
    /\ split_segments \in SplitInputs
    /\ split_duration \in SplitDurations
    /\ split_chunks = <<>>

Split ==
    /\ split_pc = "called"
    /\ split_chunks' = chunk_segments(split_segments, split_duration)
    /\ split_pc' = "done"
    /\ UNCHANGED <<split_segments, split_duration, gen_vars, sync_vars, aux_vars>>

SplitNext == Split

SplitSpec == SplitInit /\ [][SplitNext]_vars

RECURSIVE Flatten(_)
Flatten(chunks) == IF chunks = <<>> THEN <<>> ELSE Head(chunks) \o Flatten(Tail(chunks))

(* index in the input of the first segment of chunk c, given that the      *)
(* chunks partition the input                                              *)
FirstIndex(chunks, c) == 1 + Len(Flatten(SubSeq(chunks, 1, c - 1)))

LastIndex(chunks, c) == Len(Flatten(SubSeq(chunks, 1, c)))

ChunkOf(chunks, k) ==
    CHOOSE c \in 1 .. Len(chunks) : FirstIndex(chunks, c) <= k /\ k <= LastIndex(chunks, c)

IsLong(seg, duration) == seg.end - seg.start > duration

(* C13: the chunks partition the input: their concatenation is the input   *)
(* in order, no chunk is empty, the empty input gives no chunk             *)
C13_ChunksPartitionInput ==
    split_pc = "done" =>
        /\ Flatten(split_chunks) = split_segments
        /\ \A c \in 1 .. Len(split_chunks) : split_chunks[c] # <<>>
        /\ split_segments = <<>> => split_chunks = <<>>

C13_Witness ==
    /\ split_pc = "done"
    /\ Len(split_segments) = 4
    /\ Len(split_chunks) = 2
    /\ Len(split_chunks[1]) = 3

(* C14: a segment other than the first begins a new chunk exactly when its *)
(* start minus the start of the current chunk's first segment is at least  *)
(* the chunk duration; every chunk but the last spans at least the chunk   *)
(* duration up to the start of the next chunk                              *)
C14_NewChunkAtDuration ==
    split_pc = "done" =>
        /\ \A k \in 2 .. Len(split_segments) :
              (\E c \in 1 .. Len(split_chunks) : FirstIndex(split_chunks, c) = k)
              <=> (split_segments[k].start
                     - split_segments[FirstIndex(split_chunks,
                                                 ChunkOf(split_chunks, k - 1))].start
                   >= split_duration)
        /\ \A c \in 1 .. (Len(split_chunks) - 1) :
              split_chunks[c + 1][1].start - split_chunks[c][1].start >= split_duration

C14_Witness ==
    /\ split_pc = "done"
    /\ split_duration = 60
    /\ [k \in 1 .. Len(split_segments) |-> split_segments[k].start] = <<0, 5, 65>>
    /\ split_chunks = << <<split_segments[1], split_segments[2]>>, <<split_segments[3]>> >>

(* C15 as claimed: a segment longer than the chunk duration forms a chunk  *)
(* that contains only that segment                                         *)
C15_LongSegmentAlone ==
    split_pc = "done" =>
        \A k \in 1 .. Len(split_segments) :
            IsLong(split_segments[k], split_duration) =>
                split_chunks[ChunkOf(split_chunks, k)] = <<split_segments[k]>>

(* C15 amended: a segment longer than the chunk duration is never split,   *)
(* it is the last segment of its chunk, and the only one when it begins    *)
(* the chunk                                                               *)
C15_LongSegmentClosesChunk ==
    split_pc = "done" =>
        \A k \in 1 .. Len(split_segments) :
            IsLong(split_segments[k], split_duration) =>
                LET c == ChunkOf(split_chunks, k)
                IN  /\ split_chunks[c][k - FirstIndex(split_chunks, c) + 1] = split_segments[k]
                    /\ Cardinality({ j \in 1 .. Len(Flatten(split_chunks)) :
                                       Flatten(split_chunks)[j] = split_segments[k] }) = 1
                    /\ k = LastIndex(split_chunks, c)
                    /\ k = FirstIndex(split_chunks, c) =>
                          split_chunks[c] = <<split_segments[k]>>

C15_Witness ==
    /\ split_pc = "done"
    /\ split_duration = 120
    /\ Len(split_segments) = 4
    /\ IsLong(split_segments[2], split_duration)
    /\ IsLong(split_segments[3], split_duration)
    /\ split_chunks = << <<split_segments[1], split_segments[2]>>,
                         <<split_segments[3]>>, <<split_segments[4]>> >>

----------------------------------------------------------------------------
(* SyncService._extract_keywords and _calculate_similarity                 *)

UpperCase == "ABCDEFGHIJKLMNOPQRSTUVWXYZ"

LowerCase == "abcdefghijklmnopqrstuvwxyz"

Digits == "0123456789"

CharsOf(str) == { SubSeq(str, k, k) : k \in 1 .. Len(str) }

UpperChars == CharsOf(UpperCase)

AlnumChars == CharsOf(UpperCase) \cup CharsOf(LowerCase) \cup CharsOf(Digits)

(* str.lower() of the upper case letters *)
LowerOf ==
    [c \in UpperChars |->
        SubSeq(LowerCase, CHOOSE j \in 1 .. Len(UpperCase) : SubSeq(UpperCase, j, j) = c,
                          CHOOSE j \in 1 .. Len(UpperCase) : SubSeq(UpperCase, j, j) = c)]

(* str.lower() of one character *)
LowerChar(c) == IF c \in UpperChars THEN LowerOf[c] ELSE c

RECURSIVE Lower(_)
Lower(text) == IF text = "" THEN "" ELSE LowerChar(Head(text)) \o Lower(Tail(text))

(* c.isalnum() *)
IsAlnum(c) == c \in AlnumChars

(* text.split(): the maximal runs of non-blank characters *)
RECURSIVE SplitWords(_, _)
SplitWords(text, word) ==
    IF text = "" THEN (IF word = "" THEN <<>> ELSE <<word>>)
    ELSE IF Head(text) = " "
         THEN (IF word = "" THEN <<>> ELSE <<word>>) \o SplitWords(Tail(text), "")
         ELSE SplitWords(Tail(text), word \o Head(text))

(* ''.join(c for c in word if c.isalnum()) *)
RECURSIVE CleanWord(_)
CleanWord(word) ==
    IF word = "" THEN ""
    ELSE (IF IsAlnum(Head(word)) THEN Head(word) ELSE "") \o CleanWord(Tail(word))

(* the ASCII entries of the stop word list *)
stop_words ==
    { "il", "lo", "la", "i", "gli", "le", "un", "uno", "una",
      "di", "a", "da", "in", "con", "su", "per", "tra", "fra",
      "che", "e", "sono", "come", "questo", "questa", "questi",
      "quello", "quella", "quelli", "quelle", "del", "della", "dei",
      "delle", "al", "alla", "ai", "alle", "dal", "dalla", "nel",
      "nella", "sul", "sulla", "si", "ci", "ne", "li",
      "the", "an", "is", "are", "was", "were", "be", "been",
      "being", "have", "has", "had", "do", "does", "did", "will",
      "would", "could", "should", "may", "might", "must", "shall" }

(* a variant that also keeps the words of two characters *)
KeptWordsOfTwo(words) ==
    { w \in { CleanWord(words[k]) : k \in 1 .. Len(words) } :
        w # "" /\ Len(w) >= 2 /\ w \notin stop_words }

(* the loop over the words: the cleaned words that are kept *)
KeptWords(words) ==
    { w \in { CleanWord(words[k]) : k \in 1 .. Len(words) } :
        w # "" /\ Len(w) > 2 /\ w \notin stop_words }

extract_keywords(text) == KeptWords(SplitWords(Lower(text), ""))

RECURSIVE JoinWithBlank(_)
JoinWithBlank(strs) ==
    IF strs = <<>> THEN ""
    ELSE IF Len(strs) = 1 THEN strs[1]
    ELSE strs[1] \o " " \o JoinWithBlank(Tail(strs))

slide_text(slide) ==
    slide.title \o " " \o JoinWithBlank(slide.content)
    \o (IF slide.deep_dive # Null /\ slide.deep_dive # ""
        THEN " " \o slide.deep_dive ELSE "")

(* a variant that divides by the size of the first set *)
JaccardOverFirst(slide_keywords, transcript_keywords) ==
    IF slide_keywords = {} \/ transcript_keywords = {}
    THEN <<0, 1>>
    ELSE <<Cardinality(slide_keywords \cap transcript_keywords),
           Cardinality(slide_keywords)>>

(* the Jaccard index of two keyword sets as the fraction                  *)
(* <<numerator, denominator>>, 0 when either set is empty                 *)
Jaccard(slide_keywords, transcript_keywords) ==
    IF slide_keywords = {} \/ transcript_keywords = {}
    THEN <<0, 1>>
    ELSE <<Cardinality(slide_keywords \cap transcript_keywords),
           Cardinality(slide_keywords \cup transcript_keywords)>>

calculate_similarity(slide, transcript_segment) ==
    Jaccard(extract_keywords(slide_text(slide)), extract_keywords(transcript_segment))

(* comparison of two fractions with positive denominators *)
Greater(a, b) == a[1] * b[2] > b[1] * a[2]

(* similarity_threshold = 0.3 *)
ReachesThreshold(a) == 10 * a[1] >= 3 * a[2]

----------------------------------------------------------------------------
(* SyncService.sync_with_audio *)

(* a variant of the comparison in which the last of equal scores wins *)
ScoredLastWins(best, seg_idx, similarity) ==
    IF ~Greater(best.similarity, similarity)
    THEN [idx |-> seg_idx, similarity |-> similarity]
    ELSE best

(* best_similarity and best_match_idx after a segment was scored; idx 0   *)
(* is None                                                                *)
Scored(best, seg_idx, similarity) ==
    IF Greater(similarity, best.similarity)
    THEN [idx |-> seg_idx, similarity |-> similarity]
    ELSE best

(* a variant of the search that does not skip the used segments *)
RECURSIVE BestMatchReusing(_, _, _, _, _)
BestMatchReusing(slide, segs, seg_idx, used, best) ==
    IF seg_idx > Len(segs) THEN best
    ELSE BestMatchReusing(slide, segs, seg_idx + 1, used,
             Scored(best, seg_idx, calculate_similarity(slide, segs[seg_idx].text)))

(* the inner loop over the segments from search_start *)
RECURSIVE BestMatch(_, _, _, _, _)
BestMatch(slide, segs, seg_idx, used, best) ==
    IF seg_idx > Len(segs) THEN best
    ELSE IF seg_idx \in used THEN BestMatch(slide, segs, seg_idx + 1, used, best)
    ELSE BestMatch(slide, segs, seg_idx + 1, used,
             Scored(best, seg_idx, calculate_similarity(slide, segs[seg_idx].text)))

Max(a, b) == IF a >= b THEN a ELSE b

(* a variant of the window that always starts at the first segment *)
search_start_first(slide_idx) == 0

(* the first segment index (0-based) searched for the slide at slide_idx *)
search_start(slide_idx) == Max(0, slide_idx - 2)

(* the test of line 119 *)
Accepted(best) == best.idx # 0 /\ ReachesThreshold(best.similarity)

(* a variant that ends the matched slide at the end of its segment *)
RetimedToSegmentEnd(slide, segs, best) ==
    IF Accepted(best)
    THEN [slide EXCEPT !.timestamp_start = segs[best.idx].start,
                       !.timestamp_end = segs[best.idx].end]
    ELSE slide

(* a variant that numbers the matched slide after its segment *)
RetimedRenumbered(slide, segs, best) ==
    IF Accepted(best)
    THEN [slide EXCEPT !.id = best.idx,
                       !.timestamp_start = segs[best.idx].start,
                       !.timestamp_end = segs[best.idx].start
                           + (slide.timestamp_end - slide.timestamp_start)]
    ELSE slide

(* the synced_slide built for a slide from the outcome of its search *)
Retimed(slide, segs, best) ==
    IF Accepted(best)
    THEN [slide EXCEPT !.timestamp_start = segs[best.idx].start,
                       !.timestamp_end = segs[best.idx].start
                           + (slide.timestamp_end - slide.timestamp_start)]
    ELSE slide

RECURSIVE MatchSlides(_, _, _, _, _, _)

(* the rest of the loop body once the search for slide i has ended *)
Assign(slides, segs, i, used, synced, matched, best) ==
    MatchSlides(slides, segs, i + 1,
                IF Accepted(best) THEN used \cup {best.idx} ELSE used,
                Append(synced, Retimed(slides[i], segs, best)),
                Append(matched, IF Accepted(best) THEN best.idx ELSE 0))

(* the loop over the slides: the re-timed slides and, per slide, the index *)
(* of the segment accepted for it                                          *)
MatchSlides(slides, segs, i, used, synced, matched) ==
    IF i > Len(slides) THEN [slides |-> synced, matched |-> matched]
    ELSE Assign(slides, segs, i, used, synced, matched,
                BestMatch(slides[i], segs, search_start(i - 1) + 1, used,
                          [idx |-> 0, similarity |-> <<0, 1>>]))

(* a variant of the pass that leaves the end times alone *)
AdjustEndsSkipped(synced, i) == synced

(* a variant of the pass that stops one pair early *)
RECURSIVE AdjustEndsShort(_, _)
AdjustEndsShort(synced, i) ==
    IF i > Len(synced) - 2 THEN synced
    ELSE IF synced[i].timestamp_end > synced[i + 1].timestamp_start
         THEN AdjustEndsShort([synced EXCEPT ![i].timestamp_end = synced[i + 1].timestamp_start],
                              i + 1)
         ELSE AdjustEndsShort(synced, i + 1)

(* the pass over the adjacent pairs, from pair i on *)
RECURSIVE AdjustEnds(_, _)
AdjustEnds(synced, i) ==
    IF i > Len(synced) - 1 THEN synced
    ELSE IF synced[i].timestamp_end > synced[i + 1].timestamp_start
         THEN AdjustEnds([synced EXCEPT ![i].timestamp_end = synced[i + 1].timestamp_start],
                         i + 1)
         ELSE AdjustEnds(synced, i + 1)

(* a variant that takes the duration from the transcript even when no    *)
(* slide was produced                                                     *)
ManifestOfTranscript(pres, segs, synced_slides) ==
    [metadata |-> [title |-> pres.metadata.title,
                   duration |-> IF segs # <<>> THEN segs[Len(segs)].end
                                ELSE pres.metadata.duration],
     slides |-> synced_slides,
     cards |-> <<>>]

(* the manifest built from the adjusted slides *)
Manifest(pres, segs, synced_slides) ==
    [metadata |-> [title |-> pres.metadata.title,
                   duration |-> IF synced_slides # <<>> /\ segs # <<>>
                                THEN segs[Len(segs)].end
                                ELSE pres.metadata.duration],
     slides |-> synced_slides,
     cards |-> <<>>]

(* the manifest and the used_segment_indices bookkeeping of a call *)
Returned(pres, segs, retimed) ==
    [manifest |-> Manifest(pres, segs, AdjustEnds(retimed.slides, 1)),
     matched |-> retimed.matched]

(* a variant without the early return for an empty segment list *)
sync_with_audio_unguarded(pres, segs) ==
    Returned(pres, segs, MatchSlides(pres.slides, segs, 1, {}, <<>>, <<>>))

(* the call: the manifest it returns and, per slide, the index of the     *)
(* segment accepted for it                                                *)
sync_with_audio(pres, segs) ==
    IF segs = <<>>
    THEN [manifest |-> pres, matched |-> [k \in 1 .. Len(pres.slides) |-> 0]]
    ELSE Returned(pres, segs, MatchSlides(pres.slides, segs, 1, {}, <<>>, <<>>))

----------------------------------------------------------------------------
(* The synchronizer alone: sync_with_audio applied to an uploaded deck and *)
(* a transcript                                                            *)

SyncSpans == { <<0, 30>>, <<10, 30>>, <<20, 25>> }

SyncTitles == { "Topic A", "Intro" }

SyncTexts == { "topic A details", "intro", "unrelated" }

SyncSlide(k, span, title) ==
    [id |-> k, timestamp_start |-> span[1], timestamp_end |-> span[2], title |-> title,
     content |-> <<"details">>, math_formulas |-> <<>>, deep_dive |-> Null]

SyncDecks ==
    UNION { { [metadata |-> [title |-> "Deck", duration |-> 30],
               slides |-> [k \in 1 .. n |-> SyncSlide(k, spans[k], titles[k])],
               cards |-> <<"q1">>] :
                spans \in [1 .. n -> SyncSpans], titles \in [1 .. n -> SyncTitles] } :
            n \in 0 .. MaxSyncSlides }

SyncTranscripts ==
    { [k \in 1 .. Len(texts) |->
          [start |-> 10 * k - 5, end |-> 10 * k + 5, text |-> texts[k]]] :
        texts \in UNION { [1 .. m -> SyncTexts] : m \in 0 .. MaxSyncSegs } }

SyncInit ==
    /\ GenInit
    /\ SplitIdle
    /\ AuxIdle
    /\ sync_pc = "called"
    /\ sync_input \in SyncDecks
    /\ sync_segments \in SyncTranscripts
    /\ sync_result = NoPresentation
    /\ sync_matched = <<>>

Sync ==
    /\ sync_pc = "called"
    /\ LET returned == sync_with_audio(sync_input, sync_segments)
       IN  /\ sync_result' = returned.manifest
           /\ sync_matched' = returned.matched
    /\ sync_pc' = "done"
    /\ UNCHANGED <<sync_input, sync_segments, gen_vars, split_vars, aux_vars>>

SyncNext == Sync

SyncSpec == SyncInit /\ [][SyncNext]_vars

----------------------------------------------------------------------------
(* Properties of the synchronizer *)

SyncDone == sync_pc = "done"

HasOverlap(slides) ==
    \E i \in 1 .. Len(slides) - 1 :
        slides[i].timestamp_end > slides[i + 1].timestamp_start

SortedByStart(slides) ==
    \A i \in 1 .. Len(slides) - 1 :
        slides[i].timestamp_start <= slides[i + 1].timestamp_start

EndsAfterStarts(slides) ==
    \A i \in 1 .. Len(slides) : slides[i].timestamp_end >= slides[i].timestamp_start

ChainOfThree(slides) ==
    \E i \in 1 .. Len(slides) - 2 :
        /\ slides[i].timestamp_end > slides[i + 1].timestamp_start
        /\ slides[i + 1].timestamp_end > slides[i + 2].timestamp_start

(* C16, as stated: after sync, for any input presentation and any segment  *)
(* list, no output slide ends after the start of the slide that follows it *)
C16_NoAdjacentOverlap ==
    SyncDone => ~HasOverlap(sync_result.slides)

(* C16, amended: after a sync with a non-empty segment list no output      *)
(* slide ends after the start of the slide that follows it; with an empty  *)
(* segment list the output is the input, overlaps included                 *)
C16_NoAdjacentOverlapWithSegments ==
    SyncDone =>
        /\ sync_segments # <<>> => ~HasOverlap(sync_result.slides)
        /\ sync_segments = <<>> => sync_result = sync_input

C16_Witness ==
    /\ SyncDone
    /\ sync_segments # <<>>
    /\ HasOverlap(sync_input.slides)
    /\ \E i \in 1 .. Len(sync_matched) : sync_matched[i] # 0
    /\ \E i \in 1 .. Len(sync_input.slides) - 1 :
          sync_result.slides[i].timestamp_end = sync_result.slides[i + 1].timestamp_start

(* C17: after a generate or a sync operation the slides of the returned    *)
(* presentation are in non-decreasing timestamp_start order                *)
C17_SlidesSortedByStart ==
    /\ \A r \in Runs :
          (Finished(r) /\ ~presentation[r].raised) => SortedByStart(presentation[r].slides)
    /\ SyncDone => SortedByStart(sync_result.slides)

(* C18: when every input slide has timestamp_end >= timestamp_start, so    *)
(* has every slide of the output of sync                                   *)
C18_EndNotBeforeStart ==
    (SyncDone /\ EndsAfterStarts(sync_input.slides)) => EndsAfterStarts(sync_result.slides)

C20_NoSegmentReuse ==
    SyncDone =>
        /\ \A i, j \in 1 .. Len(sync_matched) :
              (i # j /\ sync_matched[i] # 0) => sync_matched[i] # sync_matched[j]
        /\ \A i \in 1 .. Len(sync_matched) :
              sync_matched[i] # 0 =>
                  /\ sync_matched[i] \in 1 .. Len(sync_segments)
                  /\ sync_result.slides[i].timestamp_start
                         = sync_segments[sync_matched[i]].start

C20_Witness ==
    /\ SyncDone
    /\ \E i, j \in 1 .. Len(sync_matched) :
          /\ i < j
          /\ sync_matched[i] # 0
          /\ sync_matched[i] >= Max(0, (j - 1) - 2) + 1
          /\ ReachesThreshold(calculate_similarity(sync_input.slides[j],
                                                   sync_segments[sync_matched[i]].text))
          /\ sync_matched[j] # sync_matched[i]

(* C25: sync with an empty segment list returns the input presentation   *)
(* unchanged, slides, timestamps, metadata and cards, and raises nothing  *)
C25_EmptyTranscriptNoOp ==
    (SyncDone /\ sync_segments = <<>>) =>
        /\ sync_result = sync_input
        /\ \A i \in 1 .. Len(sync_matched) : sync_matched[i] = 0

C25_Witness ==
    /\ SyncDone
    /\ sync_segments = <<>>
    /\ HasOverlap(sync_input.slides)
    /\ sync_input.cards # <<>>
    /\ sync_result.cards = sync_input.cards
    /\ sync_result.slides = sync_input.slides

(* C26: the returned metadata has the input title; its duration is the    *)
(* last segment's end when the presentation has a slide and the segment   *)
(* list is non-empty, and the input duration otherwise                    *)
C26_TitleAndDuration ==
    SyncDone =>
        /\ sync_result.metadata.title = sync_input.metadata.title
        /\ sync_result.metadata.duration =
              IF Len(sync_input.slides) >= 1 /\ Len(sync_segments) >= 1
              THEN sync_segments[Len(sync_segments)].end
              ELSE sync_input.metadata.duration

C26_Witness ==
    /\ SyncDone
    /\ Len(sync_input.slides) >= 1
    /\ Len(sync_segments) >= 1
    /\ sync_result.metadata.duration = sync_segments[Len(sync_segments)].end
    /\ sync_result.metadata.duration # sync_input.metadata.duration
    /\ sync_result.metadata.title = "Deck"

----------------------------------------------------------------------------
(* The synchronizer on decks longer than the transcript: slides whose     *)
(* search window lies beyond the last segment                             *)

MaxWindowSlides == 5

MaxWindowSegs == 2

WindowSpans == { <<0, 30>>, <<10, 30>> }

WindowTexts == { "topic A", "unrelated" }

WindowDecks ==
    UNION { { [metadata |-> [title |-> "Deck", duration |-> 30],
               slides |-> [k \in 1 .. n |-> SyncSlide(k, spans[k], titles[k])],
               cards |-> <<"q1">>] :
                spans \in [1 .. n -> WindowSpans], titles \in [1 .. n -> SyncTitles] } :
            n \in 0 .. MaxWindowSlides }

WindowTranscripts ==
    { [k \in 1 .. Len(texts) |->
          [start |-> 10 * k - 5, end |-> 10 * k + 5, text |-> texts[k]]] :
        texts \in UNION { [1 .. m -> WindowTexts] : m \in 0 .. MaxWindowSegs } }

WindowInit ==
    /\ GenInit
    /\ SplitIdle
    /\ AuxIdle
    /\ sync_pc = "called"
    /\ sync_input \in WindowDecks
    /\ sync_segments \in WindowTranscripts
    /\ sync_result = NoPresentation
    /\ sync_matched = <<>>

WindowNext == Sync

WindowSpec == WindowInit /\ [][WindowNext]_vars

(* the slide at 1-based position i has an empty search window *)
EmptyWindow(i) == (i - 1) - 2 >= Len(sync_segments)

SameTimes(a, b) ==
    a.timestamp_start = b.timestamp_start /\ a.timestamp_end = b.timestamp_end

(* the end of output slide i is the input end, or was lowered to the      *)
(* start of the output slide that follows                                 *)
EndKeptOrClamped(i, original_end) ==
    \/ sync_result.slides[i].timestamp_end = original_end
    \/ /\ i < Len(sync_result.slides)
       /\ sync_result.slides[i].timestamp_end = sync_result.slides[i + 1].timestamp_start
       /\ sync_result.slides[i].timestamp_end < original_end

(* every match lies in the window of its slide *)
MatchesInWindow ==
    \A i \in 1 .. Len(sync_matched) :
        sync_matched[i] # 0 => sync_matched[i] - 1 >= Max(0, (i - 1) - 2)

(* C21, as stated: the slide at index i is only matched to a segment of   *)
(* index >= max(0, i - 2), and a slide whose window is empty keeps its    *)
(* original timestamps                                                    *)
C21_WindowedSearch ==
    SyncDone =>
        /\ MatchesInWindow
        /\ \A i \in 1 .. Len(sync_input.slides) :
              EmptyWindow(i) => SameTimes(sync_result.slides[i], sync_input.slides[i])

(* C21, amended: the slide at index i is only matched to a segment of     *)
(* index >= max(0, i - 2); a slide whose window is empty is not matched   *)
(* and keeps its timestamp_start, and its timestamp_end unless the        *)
(* overlap pass lowers it to the start of the next slide                  *)
C21_WindowedSearchThenClamp ==
    SyncDone =>
        /\ MatchesInWindow
        /\ \A i \in 1 .. Len(sync_input.slides) :
              EmptyWindow(i) =>
                  /\ sync_matched[i] = 0
                  /\ sync_result.slides[i].timestamp_start
                         = sync_input.slides[i].timestamp_start
                  /\ EndKeptOrClamped(i, sync_input.slides[i].timestamp_end)

C21_Witness ==
    /\ SyncDone
    /\ sync_segments # <<>>
    /\ \E i \in 1 .. Len(sync_input.slides) :
          /\ EmptyWindow(i)
          /\ ~SameTimes(sync_result.slides[i], sync_input.slides[i])
          /\ \E j \in 1 .. Len(sync_segments) :
                /\ \A k \in 1 .. Len(sync_matched) : sync_matched[k] # j
                /\ ReachesThreshold(calculate_similarity(sync_input.slides[i],
                                                         sync_segments[j].text))

----------------------------------------------------------------------------
(* The synchronizer on slides and segments with larger keyword sets:      *)
(* scores of 1, 1/3, 3/10, 1/10 and 0, and equal scores                   *)

MaxMatchSlides == 2

MaxMatchSegs == 2

MatchSpans == { <<0, 10>>, <<5, 30>> }

(* title and content of the slides *)
MatchTopics ==
    { <<"Topic A", <<"details">>>>,
      <<"Intro", <<"details">>>>,
      <<"alpha beta gamma", <<"delta epsilon", "zeta">>>> }

MatchTexts ==
    { "unrelated",
      "topic A details",
      "alpha beta gamma eta theta iota kappa",
      "alpha eta theta iota kappa" }

MatchSlide(k, span, topic) ==
    [id |-> k, timestamp_start |-> span[1], timestamp_end |-> span[2],
     title |-> topic[1], content |-> topic[2], math_formulas |-> <<>>, deep_dive |-> Null]

MatchDecks ==
    UNION { { [metadata |-> [title |-> "Deck", duration |-> 30],
               slides |-> [k \in 1 .. n |-> MatchSlide(k, spans[k], topics[k])],
               cards |-> <<"q1">>] :
                spans \in [1 .. n -> MatchSpans], topics \in [1 .. n -> MatchTopics] } :
            n \in 0 .. MaxMatchSlides }

MatchTranscripts ==
    { [k \in 1 .. Len(texts) |->
          [start |-> 20 * (k - 1), end |-> 20 * (k - 1) + 5, text |-> texts[k]]] :
        texts \in UNION { [1 .. m -> MatchTexts] : m \in 0 .. MaxMatchSegs } }

MatchInit ==
    /\ GenInit
    /\ SplitIdle
    /\ AuxIdle
    /\ sync_pc = "called"
    /\ sync_input \in MatchDecks
    /\ sync_segments \in MatchTranscripts
    /\ sync_result = NoPresentation
    /\ sync_matched = <<>>

MatchNext == Sync

MatchSpec == MatchInit /\ [][MatchNext]_vars

(* the score of input slide i against segment j *)
Score(i, j) == calculate_similarity(sync_input.slides[i], sync_segments[j].text)

(* the segments of the window of slide i that no earlier slide took *)
Candidates(i) ==
    { j \in Max(1, i - 2) .. Len(sync_segments) :
        \A k \in 1 .. (i - 1) : sync_matched[k] # j }

(* the candidate of highest score, the lowest index among equal scores *)
IsBest(i, j) ==
    /\ j \in Candidates(i)
    /\ \A j2 \in Candidates(i) :
          \/ Greater(Score(i, j), Score(i, j2))
          \/ (~Greater(Score(i, j2), Score(i, j)) /\ j <= j2)

(* the greedy rule: slide i takes its best candidate when that one        *)
(* reaches the threshold, and no segment otherwise                        *)
GreedyChoice(i) ==
    IF \E j \in Candidates(i) : IsBest(i, j) /\ ReachesThreshold(Score(i, j))
    THEN IsBest(i, sync_matched[i])
    ELSE sync_matched[i] = 0

(* C22, as stated: each slide takes the unused segment of its window with *)
(* the highest Jaccard similarity, lowest index on ties, exactly when     *)
(* that similarity is >= 0.3; otherwise it keeps its original             *)
(* timestamp_start and timestamp_end and marks no segment used            *)
C22_GreedyBestMatch ==
    (SyncDone /\ sync_segments # <<>>) =>
        \A i \in 1 .. Len(sync_input.slides) :
            /\ GreedyChoice(i)
            /\ sync_matched[i] = 0 =>
                  SameTimes(sync_result.slides[i], sync_input.slides[i])

(* C22, amended: the same choice and acceptance rule; a slide without     *)
(* accepted match marks no segment used and keeps its original            *)
(* timestamp_start, and its timestamp_end unless the overlap pass lowers  *)
(* it to the start of the next slide                                      *)
C22_GreedyBestMatchThenClamp ==
    (SyncDone /\ sync_segments # <<>>) =>
        \A i \in 1 .. Len(sync_input.slides) :
            /\ GreedyChoice(i)
            /\ sync_matched[i] = 0 =>
                  /\ sync_result.slides[i].timestamp_start
                         = sync_input.slides[i].timestamp_start
                  /\ EndKeptOrClamped(i, sync_input.slides[i].timestamp_end)

(* a slide that passes over a segment of score 1/10 for a later one of    *)
(* score exactly 3/10, and a second slide, left with the segment of score *)
(* 1/10, that takes none                                                  *)
C22_Witness ==
    /\ SyncDone
    /\ Len(sync_segments) = 2
    /\ Len(sync_input.slides) = 2
    /\ Score(1, 1) = <<1, 10>>
    /\ Score(1, 2) = <<3, 10>>
    /\ sync_matched[1] = 2
    /\ Candidates(2) = {1}
    /\ Score(2, 1) = <<1, 10>>
    /\ sync_matched[2] = 0

(* C23: a matched slide starts at its segment's start and ends that start *)
(* plus its original duration, not at the segment's end, unless the       *)
(* overlap pass lowered the end to the next slide's start; the overlap    *)
(* pass never changes a timestamp_start                                   *)
C23_MatchedKeepsDuration ==
    (SyncDone /\ sync_segments # <<>>) =>
        \A i \in 1 .. Len(sync_input.slides) :
            IF sync_matched[i] # 0
            THEN /\ sync_result.slides[i].timestamp_start
                        = sync_segments[sync_matched[i]].start
                 /\ EndKeptOrClamped(i, sync_segments[sync_matched[i]].start
                                        + (sync_input.slides[i].timestamp_end
                                           - sync_input.slides[i].timestamp_start))
            ELSE sync_result.slides[i].timestamp_start
                     = sync_input.slides[i].timestamp_start

(* the slide 0..10 "Topic A" / "details" against "unrelated" and          *)
(* "topic A details" starting at 20 comes back as 20..30                  *)
C23_Witness ==
    /\ SyncDone
    /\ Len(sync_input.slides) = 1
    /\ sync_input.slides[1].timestamp_start = 0
    /\ sync_input.slides[1].timestamp_end = 10
    /\ sync_input.slides[1].title = "Topic A"
    /\ Len(sync_segments) = 2
    /\ sync_segments[1].text = "unrelated"
    /\ sync_segments[2].text = "topic A details"
    /\ sync_segments[2].start = 20
    /\ sync_segments[2].end # 30
    /\ Score(1, 2) = <<2, 2>>
    /\ sync_matched = <<2>>
    /\ sync_result.slides[1].timestamp_start = 20
    /\ sync_result.slides[1].timestamp_end = 30

(* C24: sync returns the same number of slides in the same order, each    *)
(* with the id, title, content, math_formulas and deep_dive of the input  *)
(* slide at the same position                                             *)
C24_ContentCarriedOver ==
    SyncDone =>
        /\ Len(sync_result.slides) = Len(sync_input.slides)
        /\ \A i \in 1 .. Len(sync_input.slides) :
              /\ sync_result.slides[i].id = sync_input.slides[i].id
              /\ sync_result.slides[i].title = sync_input.slides[i].title
              /\ sync_result.slides[i].content = sync_input.slides[i].content
              /\ sync_result.slides[i].math_formulas = sync_input.slides[i].math_formulas
              /\ sync_result.slides[i].deep_dive = sync_input.slides[i].deep_dive

(* two slides of different title and content, re-timed to segments in     *)
(* reverse order                                                          *)
C24_Witness ==
    /\ SyncDone
    /\ Len(sync_input.slides) = 2
    /\ sync_input.slides[1].title # sync_input.slides[2].title
    /\ sync_input.slides[1].content # sync_input.slides[2].content
    /\ sync_matched = <<2, 1>>
    /\ sync_result.slides[1].timestamp_start > sync_result.slides[2].timestamp_start

----------------------------------------------------------------------------
(* The similarity scorer alone: _calculate_similarity applied to a slide  *)
(* and a text, and to the same two texts exchanged                        *)

SimTitles == { "", "il a", "Topic A", "alpha beta gamma" }

SimContents == { <<>>, <<"details">>, <<"delta", "topic">> }

SimDeepDives == { Null, "", "more details" }

SimTexts ==
    { "", "the of", "topic A details", "TOPIC, details!", "details more topic",
      "alpha beta gamma delta" }

SimSlides ==
    { [id |-> 1, timestamp_start |-> 0, timestamp_end |-> 10, title |-> t,
       content |-> c, math_formulas |-> <<>>, deep_dive |-> dd] :
        t \in SimTitles, c \in SimContents, dd \in SimDeepDives }

(* a slide whose text is the given text *)
SlideOfText(text) ==
    [id |-> 1, timestamp_start |-> 0, timestamp_end |-> 10, title |-> text,
     content |-> <<>>, math_formulas |-> <<>>, deep_dive |-> Null]

SimInit ==
    /\ GenInit
    /\ SplitIdle
    /\ SyncIdle
    /\ KwIdle
    /\ MergeIdle
    /\ RestIdle
    /\ sim_pc = "called"
    /\ sim_slide \in SimSlides
    /\ sim_text \in SimTexts
    /\ sim_score = <<0, 1>>
    /\ sim_swapped = <<0, 1>>

Similarity ==
    /\ sim_pc = "called"
    /\ sim_score' = calculate_similarity(sim_slide, sim_text)
    /\ sim_swapped' = calculate_similarity(SlideOfText(sim_text), slide_text(sim_slide))
    /\ sim_pc' = "done"
    /\ UNCHANGED <<sim_slide, sim_text, gen_vars, split_vars, sync_vars, kw_vars,
                   merge_vars, rest_vars>>

SimNext == Similarity

SimSpec == SimInit /\ [][SimNext]_vars

SimDone == sim_pc = "done"

SlideKeywords == extract_keywords(slide_text(sim_slide))

TextKeywords == extract_keywords(sim_text)

(* C27: the score is the Jaccard index of the two keyword sets: 0 when    *)
(* either set is empty, 1 when the sets are equal and non-empty, the same *)
(* with the arguments exchanged, and within [0, 1]                        *)
C27_JaccardIndex ==
    SimDone =>
        /\ sim_score[2] > 0
        /\ 0 <= sim_score[1] /\ sim_score[1] <= sim_score[2]
        /\ (SlideKeywords = {} \/ TextKeywords = {}) => sim_score[1] = 0
        /\ (SlideKeywords # {} /\ TextKeywords # {}) =>
              sim_score[1] * Cardinality(SlideKeywords \cup TextKeywords)
                  = sim_score[2] * Cardinality(SlideKeywords \cap TextKeywords)
        /\ (SlideKeywords = TextKeywords /\ SlideKeywords # {}) =>
              sim_score[1] = sim_score[2]
        /\ sim_score[1] * sim_swapped[2] = sim_swapped[1] * sim_score[2]

(* two different non-empty keyword sets of different size that share a    *)
(* keyword                                                                *)
C27_Witness ==
    /\ SimDone
    /\ SlideKeywords \cap TextKeywords # {}
    /\ Cardinality(SlideKeywords) > Cardinality(TextKeywords)
    /\ TextKeywords \ SlideKeywords # {}
    /\ sim_score[1] > 0
    /\ sim_score[1] < sim_score[2]
    /\ sim_swapped = sim_score

----------------------------------------------------------------------------
(* The keyword extractor alone: _extract_keywords applied to texts of up  *)
(* to MaxKwWords words separated by single blanks; the empty word gives   *)
(* leading, trailing and doubled blanks                                   *)

MaxKwWords == 4

KwWords == { "", "Topic", "topic", "the", "THE", "ab,", "abc!", "x-ray,", "...", "a1b" }

KwTexts ==
    { JoinWithBlank(ws) : ws \in UNION { [1 .. n -> KwWords] : n \in 0 .. MaxKwWords } }

KwInit ==
    /\ GenInit
    /\ SplitIdle
    /\ SyncIdle
    /\ SimIdle
    /\ MergeIdle
    /\ RestIdle
    /\ kw_pc = "called"
    /\ kw_text \in KwTexts
    /\ kw_result = {}

Extract ==
    /\ kw_pc = "called"
    /\ kw_result' = extract_keywords(kw_text)
    /\ kw_pc' = "done"
    /\ UNCHANGED <<kw_text, gen_vars, split_vars, sync_vars, sim_vars, merge_vars, rest_vars>>

KwNext == Extract

KwSpec == KwInit /\ [][KwNext]_vars

KwDone == kw_pc = "done"

CharAt(str, k) == SubSeq(str, k, k)

(* text[i .. j] is a maximal run of non-blank characters *)
IsToken(text, i, j) ==
    /\ i <= j
    /\ \A k \in i .. j : CharAt(text, k) # " "
    /\ i = 1 \/ CharAt(text, i - 1) = " "
    /\ j = Len(text) \/ CharAt(text, j + 1) = " "

(* the lower case alphanumeric characters of text[i .. j], read from the  *)
(* right                                                                  *)
RECURSIVE LowerAlnumOf(_, _, _)
LowerAlnumOf(text, i, j) ==
    IF j < i THEN ""
    ELSE LowerAlnumOf(text, i, j - 1)
         \o (IF CharAt(text, j) \in AlnumChars THEN LowerChar(CharAt(text, j)) ELSE "")

ExpectedKeywords(text) ==
    { w \in { LowerAlnumOf(text, ij[1], ij[2]) :
                ij \in { p \in (1 .. Len(text)) \X (1 .. Len(text)) :
                             IsToken(text, p[1], p[2]) } } :
        Len(w) > 2 /\ w \notin stop_words }

(* C28: the keywords are exactly the words of the lowercased text, split  *)
(* on blanks and stripped of non-alphanumeric characters, that are longer *)
(* than 2 and not stop words; none is of length <= 2, a stop word or      *)
(* holds a non-alphanumeric character, and a repeated word counts once    *)
C28_KeywordsExact ==
    KwDone =>
        /\ kw_result = ExpectedKeywords(kw_text)
        /\ \A w \in kw_result :
              /\ Len(w) > 2
              /\ w \notin stop_words
              /\ \A k \in 1 .. Len(w) :
                    CharAt(w, k) \in AlnumChars /\ CharAt(w, k) \notin UpperChars

(* a stop word in capitals, a word of two letters once its comma is      *)
(* removed, and a word that occurs twice, once capitalised                *)
C28_Witness ==
    /\ KwDone
    /\ kw_text = "THE ab, Topic topic"
    /\ kw_result = {"topic"}

----------------------------------------------------------------------------
(* POST /slidepacks/merge (main.py, merge_slidepacks): the request is     *)
(* checked, the new row is added in status "processing", then the decks   *)
(* and the audio of the listed packs are concatenated                     *)

MaxMergeIds == 3

MergeTitle == "Merged"

(* slides.json of the pack k: one or two slides, numbered from 1 *)
MergeSlide(k, n) ==
    [id |-> n, timestamp_start |-> 5 * (n - 1) + k, timestamp_end |-> 5 * n + k,
     title |-> "Slide", content |-> <<"punto">>, math_formulas |-> <<>>,
     deep_dive |-> Null]

DeckOf(k) ==
    [metadata |-> [title |-> "Deck", duration |-> 8 + k],
     slides |-> [n \in 1 .. (1 + (k % 2)) |-> MergeSlide(k, n)]]

(* the course of the earlier pack k *)
CourseOf(k) == IF k < MaxPackId THEN 1 ELSE 2

(* what there is of an earlier pack: no row, a row in status "processing" *)
(* without files, or a completed pack whose audio lasts 10 s or 15 s or   *)
(* is missing from its directory (0)                                      *)
PackKinds == { "absent", "processing", "audio10", "audio15", "noaudio" }

PackRow(k, kind) ==
    IF kind = "absent" THEN NoPack
    ELSE [exists |-> TRUE, title |-> "Pack",
          status |-> IF kind = "processing" THEN "processing" ELSE "completed",
          file_path |-> IF kind = "processing" THEN NoPath ELSE <<CourseOf(k), k>>,
          course_id |-> CourseOf(k)]

PackDir(k, kind) ==
    IF kind \in {"absent", "processing"} THEN NoDir
    ELSE [json |-> DeckOf(k),
          audio |-> IF kind = "audio10" THEN 10 ELSE IF kind = "audio15" THEN 15 ELSE 0]

MergeRequests ==
    { [title |-> MergeTitle, pack_ids |-> ids] :
        ids \in UNION { [1 .. n -> 1 .. MaxPackId] : n \in 0 .. MaxMergeIds } }

MergeInit ==
    /\ GenInit
    /\ SplitIdle
    /\ SyncIdle
    /\ SimIdle
    /\ KwIdle
    /\ RestIdle
    /\ \E kinds \in [1 .. MaxPackId -> PackKinds] :
          /\ packs = [k \in PackIds |->
                         IF k <= MaxPackId THEN PackRow(k, kinds[k]) ELSE NoPack]
          /\ storage = [dir \in Dirs |->
                           IF dir[2] <= MaxPackId /\ dir[1] = CourseOf(dir[2])
                           THEN PackDir(dir[2], kinds[dir[2]]) ELSE NoDir]
    /\ merge_pc = "called"
    /\ merge_request \in MergeRequests
    /\ merge_response = NoResponse

(* a variant of the test of line 897 that does not look at the status *)
MergeableWhateverStatus(row) == row.exists

(* the test of line 897 on the row found for a pack id *)
Mergeable(row) == row.exists /\ row.status = "completed"

(* the checks of lines 890-900 *)
Acceptable(request) ==
    /\ Len(request.pack_ids) >= 2
    /\ \A k \in 1 .. Len(request.pack_ids) : Mergeable(packs[request.pack_ids[k]])

(* the id the database gives to the next row *)
NewPackId == 1 + Max(0, CHOOSE k \in {0} \cup PackIds :
                           /\ k = 0 \/ packs[k].exists
                           /\ \A j \in PackIds : packs[j].exists => j <= k)

target_course_id == packs[merge_request.pack_ids[1]].course_id

(* the row in status "processing" is the one the request added *)
new_pack == CHOOSE k \in PackIds : packs[k].exists /\ packs[k].status = "processing"
                                   /\ packs[k].title = merge_request.title

output_dir == <<packs[new_pack].course_id, new_pack>>

(* the directories of the listed packs, in list order *)
ListedDirs ==
    [k \in 1 .. Len(merge_request.pack_ids) |->
        storage[packs[merge_request.pack_ids[k]].file_path]]

(* a slide moved by the offset of its deck *)
Shifted(slide, offset) ==
    [slide EXCEPT !.timestamp_start = slide.timestamp_start + offset,
                  !.timestamp_end = slide.timestamp_end + offset]

ShiftedSlides(slides, offset) == [n \in 1 .. Len(slides) |-> Shifted(slides[n], offset)]

(* a variant that advances by the duration written in the deck *)
NextOffsetOfDeck(offset, dir) == offset + dir.json.metadata.duration

(* current_time_offset += duration_sec, the length of the pack's audio *)
NextOffset(offset, dir) == offset + dir.audio

(* the loop over the packs: merged_slides and current_time_offset *)
RECURSIVE MergeLoop(_, _, _, _)
MergeLoop(dirs, k, merged_slides, current_time_offset) ==
    IF k > Len(dirs)
    THEN [slides |-> merged_slides, offset |-> current_time_offset]
    ELSE MergeLoop(dirs, k + 1,
                   merged_slides \o ShiftedSlides(dirs[k].json.slides, current_time_offset),
                   NextOffset(current_time_offset, dirs[k]))

final_presentation(title, merged) ==
    [metadata |-> [title |-> title, duration |-> merged.offset],
     slides |-> merged.slides]

(* every listed pack has its audio file *)
AudioFound == \A k \in 1 .. Len(ListedDirs) : ListedDirs[k].audio # 0

(* lines 972-973: the row of a merge that went through *)
CompletedRow(row, dir) == [row EXCEPT !.status = "completed", !.file_path = dir]

(* a variant of the handler of lines 978-980 that leaves the row as it is *)
FailedRowUntouched(row) == row

(* line 980: the row of a merge that raised *)
FailedRow(row) == [row EXCEPT !.status = "failed"]

(* lines 890-900: the request is refused with status 400 *)
MergeRejected ==
    /\ merge_pc = "called"
    /\ ~Acceptable(merge_request)
    /\ merge_response' = [status_code |-> 400, new_pack_id |-> 0]
    /\ merge_pc' = "done"
    /\ UNCHANGED <<packs, storage, merge_request, gen_vars, split_vars, sync_vars,
                   sim_vars, kw_vars, rest_vars>>

(* lines 904-910: the new row is added and committed *)
MergeAccepted ==
    /\ merge_pc = "called"
    /\ Acceptable(merge_request)
    /\ packs' = [packs EXCEPT ![NewPackId] =
                    [exists |-> TRUE, title |-> merge_request.title,
                     status |-> "processing", file_path |-> NoPath,
                     course_id |-> target_course_id]]
    /\ merge_pc' = "running"
    /\ UNCHANGED <<storage, merge_request, merge_response, gen_vars, split_vars,
                   sync_vars, sim_vars, kw_vars, rest_vars>>

(* lines 912-976: the merged files are written and the row is completed *)
MergeCompletes ==
    /\ merge_pc = "running"
    /\ AudioFound
    /\ storage' = [storage EXCEPT ![output_dir] =
                      [json |-> final_presentation(merge_request.title,
                                                   MergeLoop(ListedDirs, 1, <<>>, 0)),
                       audio |-> MergeLoop(ListedDirs, 1, <<>>, 0).offset]]
    /\ packs' = [packs EXCEPT ![new_pack] = CompletedRow(@, output_dir)]
    /\ merge_response' = [status_code |-> 200, new_pack_id |-> new_pack]
    /\ merge_pc' = "done"
    /\ UNCHANGED <<merge_request, gen_vars, split_vars, sync_vars, sim_vars, kw_vars,
                   rest_vars>>

(* line 938: a listed pack has no audio file; lines 978-982 *)
MergeFailsLoading ==
    /\ merge_pc = "running"
    /\ ~AudioFound
    /\ packs' = [packs EXCEPT ![new_pack] = FailedRow(@)]
    /\ merge_response' = [status_code |-> 500, new_pack_id |-> 0]
    /\ merge_pc' = "done"
    /\ UNCHANGED <<storage, merge_request, gen_vars, split_vars, sync_vars, sim_vars,
                   kw_vars, rest_vars>>

(* line 969: the export of the audio raises after slides.json was written *)
MergeFailsExporting ==
    /\ merge_pc = "running"
    /\ AudioFound
    /\ storage' = [storage EXCEPT ![output_dir] =
                      [json |-> final_presentation(merge_request.title,
                                                   MergeLoop(ListedDirs, 1, <<>>, 0)),
                       audio |-> 0]]
    /\ packs' = [packs EXCEPT ![new_pack] = FailedRow(@)]
    /\ merge_response' = [status_code |-> 500, new_pack_id |-> 0]
    /\ merge_pc' = "done"
    /\ UNCHANGED <<merge_request, gen_vars, split_vars, sync_vars, sim_vars, kw_vars,
                   rest_vars>>

MergeNext ==
    \/ MergeRejected
    \/ MergeAccepted
    \/ MergeCompletes
    \/ MergeFailsLoading
    \/ MergeFailsExporting

MergeSpec == MergeInit /\ [][MergeNext]_vars

----------------------------------------------------------------------------
(* Properties of the merge *)

MergeDone == merge_pc = "done"

MergeSucceeded == MergeDone /\ merge_response.status_code = 200

(* the directory of the k-th listed pack *)
SourceDir(k) == storage[packs[merge_request.pack_ids[k]].file_path]

(* the sum of the audio durations of the listed packs before the k-th *)
RECURSIVE AudioBefore(_)
AudioBefore(k) == IF k <= 1 THEN 0 ELSE AudioBefore(k - 1) + SourceDir(k - 1).audio

(* the number of slides of the listed packs before the k-th *)
RECURSIVE SlidesBefore(_)
SlidesBefore(k) ==
    IF k <= 1 THEN 0 ELSE SlidesBefore(k - 1) + Len(SourceDir(k - 1).json.slides)

MergedDeck == storage[packs[merge_response.new_pack_id].file_path].json

(* C29: the merged deck holds the slides of the listed decks in list      *)
(* order, each equal to its source slide with both timestamps increased   *)
(* by the audio durations of the earlier decks and every other field, id  *)
(* included, as in the source; its duration is the sum of all the audio   *)
(* durations                                                              *)
C29_MergeShiftsByAudio ==
    MergeSucceeded =>
        /\ Len(MergedDeck.slides) = SlidesBefore(Len(merge_request.pack_ids) + 1)
        /\ MergedDeck.metadata.duration = AudioBefore(Len(merge_request.pack_ids) + 1)
        /\ \A k \in 1 .. Len(merge_request.pack_ids) :
              \A n \in 1 .. Len(SourceDir(k).json.slides) :
                  MergedDeck.slides[SlidesBefore(k) + n] =
                      [SourceDir(k).json.slides[n] EXCEPT
                          !.timestamp_start = @ + AudioBefore(k),
                          !.timestamp_end = @ + AudioBefore(k)]

(* packs 1 and 2 with audio of 10 s and 15 s: duration 25, the slide of   *)
(* pack 2 moved by 10 and still numbered 1 after the two slides of pack 1 *)
C29_Witness ==
    /\ MergeSucceeded
    /\ merge_request.pack_ids = <<1, 2>>
    /\ SourceDir(1).audio = 10
    /\ SourceDir(2).audio = 15
    /\ MergedDeck.metadata.duration = 25
    /\ Len(MergedDeck.slides) = 3
    /\ MergedDeck.slides[3].id = 1
    /\ MergedDeck.slides[3].timestamp_start = DeckOf(2).slides[1].timestamp_start + 10
    /\ MergedDeck.slides[3].timestamp_end = DeckOf(2).slides[1].timestamp_end + 10

(* the request lists fewer than 2 packs, or a pack that does not exist or *)
(* is not completed                                                       *)
Unacceptable ==
    \/ Len(merge_request.pack_ids) < 2
    \/ \E k \in 1 .. Len(merge_request.pack_ids) :
          \/ ~packs[merge_request.pack_ids[k]].exists
          \/ packs[merge_request.pack_ids[k]].status # "completed"

(* C30: such a request is answered with status 400, and the step that     *)
(* answers it adds no row and changes no row and no file; no other        *)
(* request is answered with 400                                           *)
C30_RejectedWithoutTrace ==
    [][merge_pc = "called" =>
          IF Unacceptable
          THEN /\ merge_pc' = "done"
               /\ merge_response'.status_code = 400
               /\ packs' = packs
               /\ storage' = storage
          ELSE merge_response'.status_code # 400]_vars

(* a refused request of two packs, the first completed, the second still  *)
(* processing, with no row added                                          *)
C30_Witness ==
    /\ MergeDone
    /\ merge_response.status_code = 400
    /\ Len(merge_request.pack_ids) = 2
    /\ packs[merge_request.pack_ids[1]].status = "completed"
    /\ packs[merge_request.pack_ids[2]].status = "processing"
    /\ \A k \in PackIds : packs[k].exists => packs[k].title # merge_request.title

----------------------------------------------------------------------------
(* POST /courses/{course_id}/reorder (main.py, reorder_course): the packs *)
(* of the course named in the list get their position as order_index     *)

MaxReorderIds == 3

(* a course id that is in no row of the courses table *)
NoCourse == 3

(* what there is of a pack: no row, or a row of course 1 or of course 2 *)
ReorderKinds == { "absent", "course1", "course2" }

ReorderRow(k, kind) ==
    IF kind = "absent" THEN NoPack
    ELSE [exists |-> TRUE, title |-> "Pack", status |-> "completed",
          file_path |-> <<IF kind = "course1" THEN 1 ELSE 2, k>>,
          course_id |-> IF kind = "course1" THEN 1 ELSE 2]

ReorderRequests ==
    { [course_id |-> c, pack_ids |-> ids] :
        c \in Courses \cup {NoCourse},
        ids \in UNION { [1 .. n -> 1 .. MaxPackId] : n \in 0 .. MaxReorderIds } }

(* the packs were given order_index 0 each (batch, single import) or the  *)
(* position in their course manifest (course import)                      *)
ReorderInit ==
    /\ GenInit
    /\ SplitIdle
    /\ SyncIdle
    /\ SimIdle
    /\ KwIdle
    /\ BatchIdle
    /\ ImportIdle
    /\ MoveIdle
    /\ UploadIdle
    /\ storage = [dir \in Dirs |-> NoDir]
    /\ merge_pc = "idle"
    /\ merge_request = [title |-> Null, pack_ids |-> <<>>]
    /\ merge_response = NoResponse
    /\ courses = Courses
    /\ \E kinds \in [1 .. MaxPackId -> ReorderKinds] :
          /\ packs = [k \in PackIds |->
                         IF k <= MaxPackId THEN ReorderRow(k, kinds[k]) ELSE NoPack]
          /\ \E imported \in BOOLEAN :
                order_index = [k \in PackIds |->
                                  IF imported /\ k <= MaxPackId /\ kinds[k] # "absent"
                                  THEN k - 1 ELSE 0]
    /\ reorder_pc = "called"
    /\ reorder_request \in ReorderRequests
    /\ reorder_response = 0

(* a variant of the query of line 686 without the filter on the course *)
FoundInAnyCourse(pack_id, course_id) == packs[pack_id].exists

(* line 686: the row with this id in this course, if any *)
FoundInCourse(pack_id, course_id) ==
    packs[pack_id].exists /\ packs[pack_id].course_id = course_id

(* lines 685-688: the loop over enumerate(request.pack_ids); index is     *)
(* 0-based, i is the 1-based place in the sequence                        *)
RECURSIVE ReorderLoop(_, _, _, _)
ReorderLoop(pack_ids, i, course_id, indices) ==
    IF i > Len(pack_ids) THEN indices
    ELSE ReorderLoop(pack_ids, i + 1, course_id,
                     IF FoundInCourse(pack_ids[i], course_id)
                     THEN [indices EXCEPT ![pack_ids[i]] = i - 1]
                     ELSE indices)

(* lines 679-682: no such course, status 404 *)
ReorderNotFound ==
    /\ reorder_pc = "called"
    /\ reorder_request.course_id \notin courses
    /\ reorder_response' = 404
    /\ reorder_pc' = "done"
    /\ UNCHANGED <<courses, order_index, reorder_request, gen_vars, split_vars,
                   sync_vars, sim_vars, kw_vars, merge_vars, batch_vars,
                   idle_vars>>

(* lines 684-692: the indices are written and committed, status 200 *)
ReorderCommitted ==
    /\ reorder_pc = "called"
    /\ reorder_request.course_id \in courses
    /\ order_index' = ReorderLoop(reorder_request.pack_ids, 1,
                                  reorder_request.course_id, order_index)
    /\ reorder_response' = 200
    /\ reorder_pc' = "done"
    /\ UNCHANGED <<courses, reorder_request, gen_vars, split_vars, sync_vars,
                   sim_vars, kw_vars, merge_vars, batch_vars,
                   idle_vars>>

ReorderNext ==
    \/ ReorderNotFound
    \/ ReorderCommitted

ReorderSpec == ReorderInit /\ [][ReorderNext]_vars

----------------------------------------------------------------------------
(* Properties of the reorder *)

(* the 1-based places of the list where the pack k is named *)
PlacesOf(k) ==
    { i \in 1 .. Len(reorder_request.pack_ids) : reorder_request.pack_ids[i] = k }

(* the pack k has a row in the course of the request *)
InReorderedCourse(k) ==
    packs[k].exists /\ packs[k].course_id = reorder_request.course_id

LastPlaceOf(k) == CHOOSE i \in PlacesOf(k) : \A j \in PlacesOf(k) : j <= i

(* the rows, the courses and the files are as before the step *)
NothingElseChanged ==
    /\ packs' = packs
    /\ courses' = courses
    /\ storage' = storage

(* C31 as written: after a reorder answered with 200, a pack of the       *)
(* course has the order_index of every place where the list names it;     *)
(* the other packs keep theirs; a missing course gives 404 and no change  *)
C31_IndexIsPosition ==
    [][reorder_pc = "called" =>
          /\ reorder_pc' = "done"
          /\ NothingElseChanged
          /\ IF reorder_request.course_id \in courses
             THEN /\ reorder_response' = 200
                  /\ \A k \in PackIds :
                        IF InReorderedCourse(k) /\ PlacesOf(k) # {}
                        THEN \A i \in PlacesOf(k) : order_index'[k] = i - 1
                        ELSE order_index'[k] = order_index[k]
             ELSE /\ reorder_response' = 404
                  /\ order_index' = order_index]_vars

(* C31 amended: a pack of the course named in the list gets the 0-based   *)
(* position of its last occurrence in the list; the packs not named or of *)
(* another course keep their order_index; a missing course gives 404 and  *)
(* changes nothing                                                        *)
C31_IndexIsLastPosition ==
    [][reorder_pc = "called" =>
          /\ reorder_pc' = "done"
          /\ NothingElseChanged
          /\ IF reorder_request.course_id \in courses
             THEN /\ reorder_response' = 200
                  /\ \A k \in PackIds :
                        order_index'[k] =
                            IF InReorderedCourse(k) /\ PlacesOf(k) # {}
                            THEN LastPlaceOf(k) - 1
                            ELSE order_index[k]
             ELSE /\ reorder_response' = 404
                  /\ order_index' = order_index]_vars

(* the list 1, 2, 1 for course 1, whose packs 1 and 2 had the indices 0  *)
(* and 1: pack 1 ends at index 2, its last place, pack 2 at index 1, and  *)
(* the pack 3 of course 2 keeps its index 2                               *)
C31_Witness ==
    /\ reorder_pc = "done"
    /\ reorder_response = 200
    /\ reorder_request = [course_id |-> 1, pack_ids |-> <<1, 2, 1>>]
    /\ packs[1].course_id = 1
    /\ packs[2].course_id = 1
    /\ packs[3].course_id = 2
    /\ order_index[1] = 2
    /\ order_index[2] = 1
    /\ order_index[3] = 2

----------------------------------------------------------------------------
(* The cards of a synchronized presentation *)

(* C32: with a non-empty segment list, sync returns the cards of the      *)
(* input presentation unchanged                                           *)
C32_CardsCarriedOver ==
    (SyncDone /\ sync_segments # <<>>) => sync_result.cards = sync_input.cards

----------------------------------------------------------------------------
(* The admission slots and the attempts of the chunk tasks *)

HeldSlots == MAX_CONCURRENT_REQUESTS - sem_value

(* the chunk attempts between the entry and the exit of `async with` *)
AttemptsInFlight == Cardinality(Calling(1)) + Cardinality(Calling(2))

(* the chunk task i of run r is between two attempts, or queued for a    *)
(* slot after an attempt that raised                                     *)
Retrying(r, i) == attempt[r][i] > 1 /\ task_pc[r][i] \in {"pending", "waiting"}

(* C33: the number of held slots equals the number of chunk attempts in  *)
(* flight in every state, so a task that ended an attempt, by success or *)
(* by exception, or that sleeps between two attempts holds no slot, and  *)
(* a retrying task gets its next call only by taking a slot again        *)
C33_SlotHeldOnlyDuringAttempt ==
    /\ sem_value >= 0
    /\ HeldSlots = AttemptsInFlight
    /\ \A r \in Runs : \A i \in ChunkTasks(r) :
          calls[r][i] = attempt[r][i] - (IF task_pc[r][i] \in {"pending", "waiting"}
                                         THEN 1 ELSE 0)

(* a task whose first attempt raised queues for a slot while the five    *)
(* slots are held by the five attempts in flight, the sixth chunk among  *)
(* them                                                                  *)
C33_Witness ==
    /\ \E i \in ChunkTasks(1) : Retrying(1, i) /\ task_pc[1][i] = "waiting"
    /\ task_pc[1][LoadSegs] = "calling"
    /\ HeldSlots = MAX_CONCURRENT_REQUESTS
    /\ AttemptsInFlight = MAX_CONCURRENT_REQUESTS

----------------------------------------------------------------------------
(* The row created by a merge *)

(* the row the request added: the only one with the title of the request *)
CreatedPack ==
    CHOOSE k \in PackIds : packs[k].exists /\ packs[k].title = merge_request.title

(* every row but that of the pack k, and every directory but dir, is as  *)
(* before the step                                                       *)
OthersUntouched(k, dir) ==
    /\ \A j \in PackIds \ {k} : packs'[j] = packs[j]
    /\ \A other \in Dirs \ {dir} : storage'[other] = storage[other]

(* C34: the step that accepts a request adds one row in status           *)
(* "processing"; while the merge runs the row stays so; the step that    *)
(* ends the request answers 200 and leaves the row "completed" with its  *)
(* file_path set to its directory, or answers 500 and leaves it          *)
(* "failed"; a finished request never leaves it "processing", and no     *)
(* step changes the row or the files of another pack                     *)
C34_MergedPackLifecycle ==
    [][/\ (merge_pc = "called" /\ merge_pc' = "running") =>
             /\ ~packs[NewPackId].exists
             /\ packs'[NewPackId].exists
             /\ packs'[NewPackId].status = "processing"
             /\ packs'[NewPackId].title = merge_request.title
             /\ \A j \in PackIds \ {NewPackId} : packs'[j] = packs[j]
             /\ storage' = storage
       /\ merge_pc = "running" =>
             /\ packs[CreatedPack].status = "processing"
             /\ merge_pc' = "done"
             /\ OthersUntouched(CreatedPack, output_dir)
             /\ \/ /\ merge_response'.status_code = 200
                   /\ AudioFound
                   /\ packs'[CreatedPack].status = "completed"
                   /\ packs'[CreatedPack].file_path = output_dir
                   /\ storage'[output_dir].audio > 0
                \/ /\ merge_response'.status_code = 500
                   /\ packs'[CreatedPack].status = "failed"]_vars

(* a merge of two completed packs, the second without its audio file,    *)
(* ended with status 500: its row is "failed" and the two packs are      *)
(* still completed                                                       *)
C34_Witness ==
    /\ MergeDone
    /\ merge_response.status_code = 500
    /\ merge_request.pack_ids = <<1, 2>>
    /\ SourceDir(1).audio = 10
    /\ SourceDir(2).audio = 0
    /\ packs[CreatedPack].status = "failed"
    /\ packs[1].status = "completed"
    /\ packs[2].status = "completed"

----------------------------------------------------------------------------
(* process_batch_queue (main.py): the background task of a batch upload  *)
(* takes the saved pairs one after another; for each it adds a row in    *)
(* status "processing", transcribes, generates and writes the pack       *)

MaxBatchItems == 3

(* the length of an uploaded audio; 0 stands for one that cannot be      *)
(* transcribed                                                           *)
BatchAudio == { 0, 10 }

BatchNames == { "lezione1", "lezione2" }

(* the pairs upload_batch saved and queued: at least one *)
BatchQueues ==
    UNION { [1 .. n -> [filename : BatchNames, audio : BatchAudio]] :
            n \in 1 .. MaxBatchItems }

BatchInit ==
    /\ GenInit
    /\ SplitIdle
    /\ SyncIdle
    /\ SimIdle
    /\ KwIdle
    /\ MergeIdle
    /\ ReorderIdle
    /\ ImportIdle
    /\ MoveIdle
    /\ UploadIdle
    /\ batch_pc = "queued"
    /\ batch_items \in BatchQueues
    /\ batch_course \in Courses
    /\ batch_done = 0
    /\ batch_created = <<>>

(* the row and the directory of the item under way *)
batch_pack == batch_created[Len(batch_created)]

batch_dir == <<batch_course, batch_pack>>

batch_item == batch_items[batch_done + 1]

(* the title the generation gives to the deck *)
GeneratedTitle == "Deck"

(* the presentation returned by generate_slides_async for the item *)
GeneratedDeck(item) ==
    [metadata |-> [title |-> GeneratedTitle, duration |-> item.audio],
     slides |-> <<MergeSlide(0, 1)>>]

(* a variant of the loop that stops at the first item that failed *)
AfterItemStopping(failed) ==
    IF failed \/ batch_done + 1 = Len(batch_items) THEN "finished" ELSE "queued"

(* the end of the loop body: the next item, or db.close() after the last *)
AfterItem(failed) == IF batch_done + 1 = Len(batch_items) THEN "finished" ELSE "queued"

(* lines 379-382: the row of the next item is added and committed *)
BatchItemStarts ==
    /\ batch_pc = "queued"
    /\ packs' = [packs EXCEPT ![NewPackId] =
                    [exists |-> TRUE, title |-> batch_item.filename,
                     status |-> "processing", file_path |-> NoPath,
                     course_id |-> batch_course]]
    /\ batch_created' = Append(batch_created, NewPackId)
    /\ batch_pc' = "processing"
    /\ UNCHANGED <<storage, merge_pc, merge_request, merge_response, batch_items,
                   batch_course, batch_done, gen_vars, split_vars, sync_vars, sim_vars,
                   kw_vars, reorder_vars, idle_vars>>

(* lines 384-420: the item went through, its files are written and its   *)
(* row is completed                                                      *)
BatchItemCompletes ==
    /\ batch_pc = "processing"
    /\ batch_item.audio > 0
    /\ storage' = [storage EXCEPT ![batch_dir] =
                      [json |-> GeneratedDeck(batch_item), audio |-> batch_item.audio]]
    /\ packs' = [packs EXCEPT ![batch_pack] =
                    [@ EXCEPT !.status = "completed", !.title = GeneratedTitle,
                              !.file_path = batch_dir]]
    /\ batch_done' = batch_done + 1
    /\ batch_pc' = AfterItem(FALSE)
    /\ UNCHANGED <<merge_pc, merge_request, merge_response, batch_items, batch_course,
                   batch_created, gen_vars, split_vars, sync_vars, sim_vars, kw_vars,
                   reorder_vars, idle_vars>>

(* lines 387-397 raise (the markdown, the transcription or the           *)
(* generation): lines 422-425                                            *)
BatchItemFailsGenerating ==
    /\ batch_pc = "processing"
    /\ packs' = [packs EXCEPT ![batch_pack] = FailedRow(@)]
    /\ batch_done' = batch_done + 1
    /\ batch_pc' = AfterItem(TRUE)
    /\ UNCHANGED <<storage, merge_pc, merge_request, merge_response, batch_items,
                   batch_course, batch_created, gen_vars, split_vars, sync_vars,
                   sim_vars, kw_vars, reorder_vars, idle_vars>>

(* line 412: the copy of the audio raises after slides.json was written *)
BatchItemFailsCopying ==
    /\ batch_pc = "processing"
    /\ batch_item.audio > 0
    /\ storage' = [storage EXCEPT ![batch_dir] =
                      [json |-> GeneratedDeck(batch_item), audio |-> 0]]
    /\ packs' = [packs EXCEPT ![batch_pack] = FailedRow(@)]
    /\ batch_done' = batch_done + 1
    /\ batch_pc' = AfterItem(TRUE)
    /\ UNCHANGED <<merge_pc, merge_request, merge_response, batch_items, batch_course,
                   batch_created, gen_vars, split_vars, sync_vars, sim_vars, kw_vars,
                   reorder_vars, idle_vars>>

BatchNext ==
    \/ BatchItemStarts
    \/ BatchItemCompletes
    \/ BatchItemFailsGenerating
    \/ BatchItemFailsCopying

BatchSpec == BatchInit /\ [][BatchNext]_vars

----------------------------------------------------------------------------
(* Properties of the batch *)

(* GET /jobs/pending: the rows in status "processing" *)
PendingJobs == { k \in PackIds : packs[k].exists /\ packs[k].status = "processing" }

Ended(k) == packs[k].status \in {"completed", "failed"}

(* C35: the batch has added one row per item begun, in item order; the   *)
(* rows of the items before the current one have ended, "completed" or   *)
(* "failed", whatever happened to the items before them; only the row of *)
(* the item under way is "processing"; a finished batch has added a row  *)
(* for every item and none of them is "processing"                       *)
C35_BatchOneAtATime ==
    /\ batch_pc \in {"queued", "processing", "finished"}
    /\ Len(batch_created) = batch_done + (IF batch_pc = "processing" THEN 1 ELSE 0)
    /\ \A j \in 1 .. batch_done : Ended(batch_created[j])
    /\ \A i, j \in 1 .. Len(batch_created) : i # j => batch_created[i] # batch_created[j]
    /\ PendingJobs = IF batch_pc = "processing" THEN {batch_pack} ELSE {}
    /\ batch_pc = "finished" <=> batch_done = Len(batch_items)

(* a finished batch of three items whose first failed and whose other    *)
(* two were completed                                                    *)
C35_Witness ==
    /\ batch_pc = "finished"
    /\ Len(batch_items) = 3
    /\ packs[batch_created[1]].status = "failed"
    /\ packs[batch_created[2]].status = "completed"
    /\ packs[batch_created[3]].status = "completed"
    /\ PendingJobs = {}

----------------------------------------------------------------------------
(* POST /import-slidepack (main.py, import_slidepack): the archive is     *)
(* opened, a course is added, and every slides.json of the archive        *)
(* becomes a pack of that course; the steps end where the handler commits *)

MaxImportPacks == 2

(* a folder of the archive: its slides.json can be loaded or not, and its *)
(* audio file lasts 10 s or is missing (0)                                *)
ImportFolders == [valid : BOOLEAN, audio : {0, 10}]

(* the uploaded file: not a zip, or a zip with 0..MaxImportPacks folders  *)
(* that hold a slides.json                                                *)
ImportArchives ==
    { [zip |-> FALSE, folders |-> <<>>] } \cup
    { [zip |-> TRUE, folders |-> folders] :
        folders \in UNION { [1 .. n -> ImportFolders] : n \in 0 .. MaxImportPacks } }

(* one course, with or without a completed pack, before the request *)
ImportInit ==
    /\ GenInit
    /\ SplitIdle
    /\ SyncIdle
    /\ SimIdle
    /\ KwIdle
    /\ BatchIdle
    /\ MoveIdle
    /\ UploadIdle
    /\ merge_pc = "idle"
    /\ merge_request = [title |-> Null, pack_ids |-> <<>>]
    /\ merge_response = NoResponse
    /\ courses = {1}
    /\ order_index = [k \in PackIds |-> 0]
    /\ reorder_pc = "idle"
    /\ reorder_request = [course_id |-> 0, pack_ids |-> <<>>]
    /\ reorder_response = 0
    /\ \E kind \in {"absent", "audio10"} :
          /\ packs = [k \in PackIds |-> IF k = 1 THEN PackRow(1, kind) ELSE NoPack]
          /\ storage = [dir \in Dirs |->
                           IF dir = <<1, 1>> THEN PackDir(1, kind) ELSE NoDir]
    /\ import_pc = "called"
    /\ import_archive \in ImportArchives
    /\ import_done = 0
    /\ import_response = 0

(* the id the database gives to the next course *)
NewCourseId == 1 + Max(0, CHOOSE c \in {0} \cup courses :
                             \A other \in courses : other <= c)

(* the course and the pack the request added last *)
import_course == CHOOSE c \in courses : \A other \in courses : other <= c

import_pack == NewPackId - 1

import_dir == <<import_course, import_pack>>

(* the folder of the slides.json the loop is at *)
import_folder == import_archive.folders[import_done + 1]

(* lines 233-237: an HTTPException raised inside the try block is an      *)
(* Exception, so `except Exception` catches it and answers 500 whatever   *)
(* its status code was                                                    *)
RaisedInTry(status_code) == 500

(* lines 102-109 and 173-180: the row is added with status "completed"    *)
(* and committed; file_path is assigned after the commit                  *)
ImportedRow(title, course_id) ==
    [exists |-> TRUE, title |-> title, status |-> "completed",
     file_path |-> NoPath, course_id |-> course_id]

(* line 233: the upload is not a zip archive *)
ImportNotZip ==
    /\ import_pc = "called"
    /\ ~import_archive.zip
    /\ import_response' = 400
    /\ import_pc' = "done"
    /\ UNCHANGED <<import_archive, import_done, gen_vars, split_vars, sync_vars,
                   sim_vars, kw_vars, merge_vars, reorder_vars, batch_vars, move_vars,
                   upload_vars>>

(* lines 72-75: the archive holds no slides.json *)
ImportNoSlides ==
    /\ import_pc = "called"
    /\ import_archive.zip
    /\ import_archive.folders = <<>>
    /\ import_response' = RaisedInTry(400)
    /\ import_pc' = "done"
    /\ UNCHANGED <<import_archive, import_done, gen_vars, split_vars, sync_vars,
                   sim_vars, kw_vars, merge_vars, reorder_vars, batch_vars, move_vars,
                   upload_vars>>

(* lines 84-88 and 160-163: the course of the import is added *)
ImportCourseAdded ==
    /\ import_pc = "called"
    /\ import_archive.zip
    /\ import_archive.folders # <<>>
    /\ courses' = courses \cup {NewCourseId}
    /\ import_pc' = IF Len(import_archive.folders) > 1 THEN "bulk" ELSE "single"
    /\ UNCHANGED <<import_archive, import_done, import_response, order_index,
                   reorder_pc, reorder_request, reorder_response, gen_vars, split_vars,
                   sync_vars, sim_vars, kw_vars, merge_vars, batch_vars, move_vars,
                   upload_vars>>

(* lines 166-167: the only slides.json cannot be loaded *)
ImportSingleUnreadable ==
    /\ import_pc = "single"
    /\ ~import_folder.valid
    /\ import_response' = 500
    /\ import_pc' = "done"
    /\ UNCHANGED <<import_archive, import_done, gen_vars, split_vars, sync_vars,
                   sim_vars, kw_vars, merge_vars, reorder_vars, batch_vars, move_vars,
                   upload_vars>>

(* lines 171-180: the row of the pack is added and committed *)
ImportSinglePackAdded ==
    /\ import_pc = "single"
    /\ import_folder.valid
    /\ packs' = [packs EXCEPT ![NewPackId] = ImportedRow("Deck", import_course)]
    /\ order_index' = [order_index EXCEPT ![NewPackId] = 0]
    /\ import_pc' = "single_pack"
    /\ UNCHANGED <<storage, merge_pc, merge_request, merge_response, courses,
                   reorder_pc, reorder_request, reorder_response, import_archive,
                   import_done, import_response, gen_vars, split_vars, sync_vars,
                   sim_vars, kw_vars, batch_vars, move_vars, upload_vars>>

(* lines 183-209: the files are written and file_path is committed *)
ImportSingleStored ==
    /\ import_pc = "single_pack"
    /\ import_folder.audio > 0
    /\ storage' = [storage EXCEPT ![import_dir] =
                      [json |-> DeckOf(1), audio |-> import_folder.audio]]
    /\ packs' = [packs EXCEPT ![import_pack].file_path = import_dir]
    /\ import_response' = 200
    /\ import_pc' = "done"
    /\ UNCHANGED <<merge_pc, merge_request, merge_response, import_archive,
                   import_done, gen_vars, split_vars, sync_vars, sim_vars, kw_vars,
                   reorder_vars, batch_vars, move_vars, upload_vars>>

(* lines 183-201: slides.json is written, no audio is found, and the      *)
(* exception leaves the handler before file_path is committed             *)
ImportSingleNoAudio ==
    /\ import_pc = "single_pack"
    /\ import_folder.audio = 0
    /\ storage' = [storage EXCEPT ![import_dir] = [json |-> DeckOf(1), audio |-> 0]]
    /\ import_response' = RaisedInTry(400)
    /\ import_pc' = "done"
    /\ UNCHANGED <<packs, merge_pc, merge_request, merge_response, import_archive,
                   import_done, gen_vars, split_vars, sync_vars, sim_vars, kw_vars,
                   reorder_vars, batch_vars, move_vars, upload_vars>>

(* lines 91-98 raise for a slides.json that cannot be loaded: lines       *)
(* 149-151 go on with the next one                                        *)
ImportBulkPackUnreadable ==
    /\ import_pc = "bulk"
    /\ import_done < Len(import_archive.folders)
    /\ ~import_folder.valid
    /\ import_done' = import_done + 1
    /\ UNCHANGED <<import_pc, import_archive, import_response, gen_vars, split_vars,
                   sync_vars, sim_vars, kw_vars, merge_vars, reorder_vars, batch_vars,
                   move_vars, upload_vars>>

(* lines 100-111: the row of the i-th pack is added and committed *)
ImportBulkPackAdded ==
    /\ import_pc = "bulk"
    /\ import_done < Len(import_archive.folders)
    /\ import_folder.valid
    /\ packs' = [packs EXCEPT ![NewPackId] = ImportedRow("Deck", import_course)]
    /\ order_index' = [order_index EXCEPT ![NewPackId] = import_done]
    /\ import_pc' = "bulk_pack"
    /\ UNCHANGED <<storage, merge_pc, merge_request, merge_response, courses,
                   reorder_pc, reorder_request, reorder_response, import_archive,
                   import_done, import_response, gen_vars, split_vars, sync_vars,
                   sim_vars, kw_vars, batch_vars, move_vars, upload_vars>>

(* lines 113-138: the files are written, with or without audio, and       *)
(* file_path is committed                                                 *)
ImportBulkPackStored ==
    /\ import_pc = "bulk_pack"
    /\ storage' = [storage EXCEPT ![import_dir] =
                      [json |-> DeckOf(import_done + 1), audio |-> import_folder.audio]]
    /\ packs' = [packs EXCEPT ![import_pack].file_path = import_dir]
    /\ import_done' = import_done + 1
    /\ import_pc' = "bulk"
    /\ UNCHANGED <<merge_pc, merge_request, merge_response, import_archive,
                   import_response, gen_vars, split_vars, sync_vars, sim_vars, kw_vars,
                   reorder_vars, batch_vars, move_vars, upload_vars>>

(* lines 212-230: the preview is the first pack, if it was imported *)
ImportBulkAnswers ==
    /\ import_pc = "bulk"
    /\ import_done = Len(import_archive.folders)
    /\ import_response' = IF import_archive.folders[1].valid THEN 200 ELSE 500
    /\ import_pc' = "done"
    /\ UNCHANGED <<import_archive, import_done, gen_vars, split_vars, sync_vars,
                   sim_vars, kw_vars, merge_vars, reorder_vars, batch_vars, move_vars,
                   upload_vars>>

ImportNext ==
    \/ ImportNotZip
    \/ ImportNoSlides
    \/ ImportCourseAdded
    \/ ImportSingleUnreadable
    \/ ImportSinglePackAdded
    \/ ImportSingleStored
    \/ ImportSingleNoAudio
    \/ ImportBulkPackUnreadable
    \/ ImportBulkPackAdded
    \/ ImportBulkPackStored
    \/ ImportBulkAnswers

ImportSpec == ImportInit /\ [][ImportNext]_vars

----------------------------------------------------------------------------
(* Properties of the import *)

(* C36: in every persisted state, a pack in status "completed" has its    *)
(* file_path set                                                          *)
C36_CompletedHasFilePath ==
    \A k \in PackIds :
        (packs[k].exists /\ packs[k].status = "completed") => packs[k].file_path # NoPath

(* C37: an archive without slides.json, and an archive with one           *)
(* slides.json and no audio file, are answered with status 400            *)
C37_ClientErrorsAre400 ==
    (import_pc = "done" /\ import_archive.zip) =>
        /\ import_archive.folders = <<>> => import_response = 400
        /\ (/\ Len(import_archive.folders) = 1
            /\ import_archive.folders[1].valid
            /\ import_archive.folders[1].audio = 0) => import_response = 400

----------------------------------------------------------------------------
(* PATCH /slidepacks/{pack_id}/move (main.py, move_slidepack): the        *)
(* directory of the pack is moved under the target course                 *)

MoveRequests == [pack_id : 1 .. MaxPackId, course_id : Courses \cup {NoCourse}]

MoveInit ==
    /\ GenInit
    /\ SplitIdle
    /\ SyncIdle
    /\ SimIdle
    /\ KwIdle
    /\ ReorderIdle
    /\ BatchIdle
    /\ ImportIdle
    /\ UploadIdle
    /\ merge_pc = "idle"
    /\ merge_request = [title |-> Null, pack_ids |-> <<>>]
    /\ merge_response = NoResponse
    /\ \E kinds \in [1 .. MaxPackId -> PackKinds] :
          /\ packs = [k \in PackIds |->
                         IF k <= MaxPackId THEN PackRow(k, kinds[k]) ELSE NoPack]
          /\ storage = [dir \in Dirs |->
                           IF dir[2] <= MaxPackId /\ dir[1] = CourseOf(dir[2])
                           THEN PackDir(dir[2], kinds[dir[2]]) ELSE NoDir]
    /\ move_pc = "called"
    /\ move_request \in MoveRequests
    /\ move_response = 0

(* lines 768 and 773: the pack and the target course are found *)
MoveFound ==
    /\ packs[move_request.pack_id].exists
    /\ move_request.course_id \in courses

old_path == packs[move_request.pack_id].file_path

new_dir == <<move_request.course_id, move_request.pack_id>>

(* lines 784-787: the pack has a directory and it is not the target one *)
FilesToMove ==
    /\ old_path # NoPath
    /\ storage[old_path] # NoDir
    /\ old_path # new_dir

(* line 790: shutil.move *)
MovedStorage == [storage EXCEPT ![new_dir] = storage[old_path], ![old_path] = NoDir]

(* lines 791 and 801: the row as the session holds it when the handler    *)
(* returns                                                                *)
MovedRow ==
    [packs[move_request.pack_id] EXCEPT
        !.file_path = IF FilesToMove THEN new_dir ELSE @,
        !.course_id = move_request.course_id]

(* the handler ends at line 801 without db.commit() (SessionLocal has     *)
(* autocommit=False): what the session holds is never written, the table *)
(* keeps the row it had                                                   *)
PersistedAfterMove(row) == packs

(* lines 768-776: the pack or the target course is missing, status 404 *)
MoveNotFound ==
    /\ move_pc = "called"
    /\ ~MoveFound
    /\ move_response' = 404
    /\ move_pc' = "done"
    /\ UNCHANGED <<move_request, gen_vars, split_vars, sync_vars, sim_vars, kw_vars,
                   merge_vars, reorder_vars, batch_vars, import_vars, upload_vars>>

(* lines 792-799: the move of the files raises, status 500 *)
MoveFails ==
    /\ move_pc = "called"
    /\ MoveFound
    /\ FilesToMove
    /\ move_response' = 500
    /\ move_pc' = "done"
    /\ UNCHANGED <<move_request, gen_vars, split_vars, sync_vars, sim_vars, kw_vars,
                   merge_vars, reorder_vars, batch_vars, import_vars, upload_vars>>

(* lines 783-801: the files are moved if there are any and the handler    *)
(* returns, status 200                                                    *)
MoveReturns ==
    /\ move_pc = "called"
    /\ MoveFound
    /\ storage' = IF FilesToMove THEN MovedStorage ELSE storage
    /\ packs' = PersistedAfterMove(MovedRow)
    /\ move_response' = 200
    /\ move_pc' = "done"
    /\ UNCHANGED <<merge_pc, merge_request, merge_response, move_request, gen_vars,
                   split_vars, sync_vars, sim_vars, kw_vars, reorder_vars, batch_vars,
                   import_vars, upload_vars>>

MoveNext ==
    \/ MoveNotFound
    \/ MoveFails
    \/ MoveReturns

MoveSpec == MoveInit /\ [][MoveNext]_vars

----------------------------------------------------------------------------
(* Properties of the move *)

(* C38: after a move answered without error, the row of the pack has the  *)
(* target course as course_id, and every directory that holds files of    *)
(* the pack is the one its file_path names                                *)
C38_RecordFollowsFiles ==
    (move_pc = "done" /\ move_response = 200) =>
        /\ packs[move_request.pack_id].course_id = move_request.course_id
        /\ \A dir \in Dirs :
              (dir[2] = move_request.pack_id /\ storage[dir] # NoDir) =>
                  packs[move_request.pack_id].file_path = dir

----------------------------------------------------------------------------
(* POST /generate (main.py, generate_slides): two requests whose audio    *)
(* uploads have the same filename run on the one event loop; both use the *)
(* path temp/{audio.filename}. The audio of request r transcribes to r    *)
(* segments, so the transcription tells whose audio was read              *)

UploadChunkResponses ==
    { resp \in ChunkResponses :
        \/ resp.kind \in {"exception", "slides_null"}
        \/ resp.kind = "slides_list" /\ Len(resp.slides) = 1 /\ ValidSlide(resp.slides[1]) }

(* lines 250-254: the upload is written to temp/{audio.filename}; the     *)
(* handler then awaits the markdown                                       *)
UploadSaved(r) ==
    /\ upload_pc[r] = "idle"
    /\ temp_audio' = r
    /\ upload_pc' = [upload_pc EXCEPT ![r] = "saved"]
    /\ UNCHANGED <<upload_response, transcribed, gen_vars, split_vars, sync_vars,
                   sim_vars, kw_vars, merge_vars, reorder_vars, batch_vars, import_vars,
                   move_vars>>

(* line 261: the file at the path is transcribed, whoever wrote it *)
UploadTranscribes(r) ==
    /\ upload_pc[r] = "saved"
    /\ temp_audio # 0
    /\ transcribed' = [transcribed EXCEPT ![r] = temp_audio]
    /\ upload_pc' = [upload_pc EXCEPT ![r] = "transcribed"]
    /\ UNCHANGED <<temp_audio, upload_response, gen_vars, split_vars, sync_vars,
                   sim_vars, kw_vars, merge_vars, reorder_vars, batch_vars, import_vars,
                   move_vars>>

(* line 261 raises, no file being at the path: lines 274-276 *)
UploadFindsNoAudio(r) ==
    /\ upload_pc[r] = "saved"
    /\ temp_audio = 0
    /\ upload_response' = [upload_response EXCEPT ![r] = 500]
    /\ upload_pc' = [upload_pc EXCEPT ![r] = "done"]
    /\ UNCHANGED <<temp_audio, transcribed, gen_vars, split_vars, sync_vars, sim_vars,
                   kw_vars, merge_vars, reorder_vars, batch_vars, import_vars, move_vars>>

(* line 266: generate_slides_async is called with the transcription *)
UploadGenerates(r) ==
    /\ upload_pc[r] = "transcribed"
    /\ Invoke(r, UniformSegments(transcribed[r]))

(* lines 269-272: the generation returned, the file is removed *)
UploadCleansUp(r) ==
    /\ upload_pc[r] = "transcribed"
    /\ gen_pc[r] = "returned"
    /\ temp_audio # 0
    /\ temp_audio' = 0
    /\ upload_response' = [upload_response EXCEPT ![r] = 200]
    /\ upload_pc' = [upload_pc EXCEPT ![r] = "done"]
    /\ UNCHANGED <<transcribed, gen_vars, split_vars, sync_vars, sim_vars, kw_vars,
                   merge_vars, reorder_vars, batch_vars, import_vars, move_vars>>

(* line 269: os.remove raises, the file being gone: lines 274-276 *)
UploadCleanupFails(r) ==
    /\ upload_pc[r] = "transcribed"
    /\ gen_pc[r] = "returned"
    /\ temp_audio = 0
    /\ upload_response' = [upload_response EXCEPT ![r] = 500]
    /\ upload_pc' = [upload_pc EXCEPT ![r] = "done"]
    /\ UNCHANGED <<temp_audio, transcribed, gen_vars, split_vars, sync_vars, sim_vars,
                   kw_vars, merge_vars, reorder_vars, batch_vars, import_vars, move_vars>>

(* line 266 raises: lines 274-276, the file stays *)
UploadGenerationRaised(r) ==
    /\ upload_pc[r] = "transcribed"
    /\ gen_pc[r] = "raised"
    /\ upload_response' = [upload_response EXCEPT ![r] = 500]
    /\ upload_pc' = [upload_pc EXCEPT ![r] = "done"]
    /\ UNCHANGED <<temp_audio, transcribed, gen_vars, split_vars, sync_vars, sim_vars,
                   kw_vars, merge_vars, reorder_vars, batch_vars, import_vars, move_vars>>

UploadNext ==
    \/ \E r \in Runs : UploadSaved(r)
    \/ \E r \in Runs : UploadTranscribes(r)
    \/ \E r \in Runs : UploadFindsNoAudio(r)
    \/ \E r \in Runs : UploadGenerates(r)
    \/ \E r \in Runs, i \in TaskIds : StartAttempt(r, i)
    \/ \E r \in Runs, i \in TaskIds, resp \in UploadChunkResponses :
          WithinLoad(resp) /\ ChunkCallReturns(r, i, resp)
    \/ \E r \in Runs : TitleStart(r)
    \/ \E r \in Runs, resp \in LoadTitleResponses : TitleCallReturns(r, resp)
    \/ \E r \in Runs : Assemble(r)
    \/ \E r \in Runs : UploadCleansUp(r)
    \/ \E r \in Runs : UploadCleanupFails(r)
    \/ \E r \in Runs : UploadGenerationRaised(r)

UploadSpec == Init /\ [][UploadNext]_vars

----------------------------------------------------------------------------
(* Properties of two overlapping /generate requests *)

(* C39: a request that transcribed an audio transcribed the one it        *)
(* uploaded, and a request answered with an error is one whose own        *)
(* generation raised                                                      *)
C39_OwnAudioAndNoInterference ==
    \A r \in Runs :
        /\ transcribed[r] # 0 => transcribed[r] = r
        /\ (upload_pc[r] = "done" /\ upload_response[r] # 200) => gen_pc[r] = "raised"

====
